---- MODULE Spec2Model ----
(***************************************************************************)
(* promoMaker: the flyer generation pipeline.                              *)
(*                                                                         *)
(*   TextGenerator   asks the generative text source for marketing copy    *)
(*                   and falls back to a tone-indexed template bank;       *)
(*   FlyerGenerator  creates the output directory, acquires the text       *)
(*                   variations once and renders one cell per              *)
(*                   (index, format) pair, skipping the cells that fail.   *)
(*                                                                         *)
(* JavaScript strings are TLA+ strings (Len, \o and SubSeq act on them as  *)
(* length, concatenation and substring).  A JavaScript value that comes    *)
(* out of JSON.parse is a tagged record, see JStr, JNum, JNull, JObj, JArr. *)
(***************************************************************************)
EXTENDS Integers, Sequences, FiniteSets, TLC

VARIABLES
    entry,           \* the entry point that was called
    config,          \* the PromoConfig handed to it (read-only)
    quantity,        \* the requested quantity
    language,        \* the language argument of TextGenerator.generateVariations
    pc,              \* position of the call
    dirOutcome,      \* outcome of mkdir in ensureOutputDirectory
    aiCalls,         \* requests sent to openai.chat.completions.create
    response,        \* what the request came back with
    textVariations,  \* value returned by TextGenerator.generateVariations
    i,               \* loop index of the batch (0-based)
    f,               \* position in the format list (1-based)
    flyers,          \* the GeneratedFlyer[] being built
    attempted,       \* history: the cells handed to ImageGenerator.generateFlyer
    files,           \* history: filenames written to the output directory
    thrown,          \* the error the call ended with, "none" while there is none
    args,            \* the arguments of the call besides config and quantity
    result,          \* the value a pure function returned
    browser,         \* the puppeteer browser held by BrowserFlyerGenerator
    procs,           \* the calls in flight at once, each with its own locals
    now              \* milliseconds the clock has advanced since the start

vars == <<entry, config, quantity, language, pc, dirOutcome, aiCalls, response,
          textVariations, i, f, flyers, attempted, files, thrown,
          args, result, browser, procs, now>>

-----------------------------------------------------------------------------
(* Bounds of the model. *)

MaxQuantity == 5          \* largest quantity of a batch call
MaxTextQuantity == 9      \* largest quantity of a direct TextGenerator call
MaxAiLen == 2             \* longest array in a response of the text source
MaxFailures == 1          \* most renders that fail within one batch
MaxCliQuantity == 2       \* largest --quantity of a command-line run
LongLen == 210            \* length of the long brief strings
MaxSingleCalls == 2       \* generateSingleFlyer calls in flight together
MaxTicks == 1             \* milliseconds the clock advances during a run
MaxBrowserQuantity == 4   \* largest quantity of generateMultipleFlyers
MaxBrowserVariations == 3 \* longest variations array given to it
MaxConcurrentCalls == 2   \* calls in flight on one BrowserFlyerGenerator
MaxPairQuantity == 2      \* largest quantity of each of two batches in flight

-----------------------------------------------------------------------------
(* JavaScript values. *)

JStr(s) == [t |-> "string", s |-> s]
JNum(s) == [t |-> "number", s |-> s]
JNull == [t |-> "null", s |-> "null"]
JObj(o) == [t |-> "object", o |-> o]
JArr(a) == [t |-> "array", a |-> a]

\* JavaScript truthiness of a value (the operand of || and of if).
Falsy(v) ==
    \/ v.t = "null"
    \/ v.t = "string" /\ v.s = ""
    \/ v.t = "number" /\ v.s = "0"

\* String(v), as a template literal renders it.
ToStr(v) == IF v.t = "object" THEN "[object Object]" ELSE v.s

Min(a, b) == IF a <= b THEN a ELSE b

\* String.prototype.substring(0, n).
Substring0(s, n) == SubSeq(s, 1, Min(Len(s), n))

RECURSIVE Repeat(_, _)
Repeat(s, n) == IF n = 0 THEN "" ELSE s \o Repeat(s, n - 1)

FieldNames == {"title", "subtitle", "callToAction", "description", "tone"}

-----------------------------------------------------------------------------
(* TextGenerator: the Fallback Bank. *)

baseTones ==
    <<"urgent", "elegant", "casual", "fun", "exclusive", "friendly",
      "informative", "inspiring">>

\* titles[language] ?? titles['English'], then [tone] ?? default, cut at 50.
FallbackTitleTable(cfg, lang) ==
    IF lang = "Spanish"
    THEN [urgent |-> "¡Última Oportunidad: " \o cfg.offer \o "!",
          elegant |-> cfg.product \o " Exclusivo para ti",
          casual |-> "¡No te pierdas esta oferta de " \o cfg.product \o "!",
          fun |-> "¡Hora de " \o cfg.product \o "!",
          exclusive |-> "Acceso VIP a " \o cfg.product,
          friendly |-> "Disfruta en familia: " \o cfg.product,
          informative |-> "Conoce " \o cfg.product \o ": La Guía",
          inspiring |-> "Transforma tu día con " \o cfg.product]
    ELSE [urgent |-> "Last Chance: " \o cfg.offer \o "!",
          elegant |-> "Exclusive " \o cfg.product \o " for you",
          casual |-> "Don't miss this " \o cfg.product \o " deal!",
          fun |-> "Party Time for " \o cfg.product \o "!",
          exclusive |-> "VIP Access to " \o cfg.product,
          friendly |-> "Enjoy with family: " \o cfg.product,
          informative |-> "Learn about " \o cfg.product \o ": The Guide",
          inspiring |-> "Transform your day with " \o cfg.product]

TitleLimit == 50
SubtitleLimit == 80
CTALimit == 30
DescriptionLimit == 200

\* generateFallbackTitle without the cut at 50 characters.
generateFallbackTitle_Uncut(cfg, tone, lang) ==
    LET langTitles == FallbackTitleTable(cfg, lang)
    IN  IF tone \in DOMAIN langTitles
        THEN langTitles[tone]
        ELSE "Discover " \o cfg.product \o " Now!"

generateFallbackTitle(cfg, tone, lang) ==
    LET langTitles == FallbackTitleTable(cfg, lang)
        text == IF tone \in DOMAIN langTitles
                THEN langTitles[tone]
                ELSE "Discover " \o cfg.product \o " Now!"
    IN  Substring0(text, TitleLimit)

FallbackSubtitleTable(cfg, lang) ==
    IF lang = "Spanish"
    THEN [urgent |-> cfg.validity \o ". ¡Actúa rápido!",
          elegant |-> "Calidad superior y diseño inigualable te esperan.",
          casual |-> "Relájate y disfruta de " \o cfg.product \o ".",
          fun |-> "La diversión está garantizada con " \o cfg.product \o ".",
          exclusive |-> "Beneficios únicos diseñados para clientes selectos.",
          friendly |-> "Crea recuerdos inolvidables con los tuyos.",
          informative |-> "Todo lo que necesitas saber antes de tu compra.",
          inspiring |-> "Alcanza tus metas con el apoyo de " \o cfg.product \o "."]
    ELSE [urgent |-> cfg.validity \o ". Act fast!",
          elegant |-> "Superior quality and unmatched design await you.",
          casual |-> "Relax and enjoy " \o cfg.product \o ".",
          fun |-> "Fun is guaranteed with " \o cfg.product \o ".",
          exclusive |-> "Unique benefits designed for select customers.",
          friendly |-> "Create unforgettable memories with your loved ones.",
          informative |-> "Everything you need to know before your purchase.",
          inspiring |-> "Achieve your goals with the support of " \o cfg.product \o "."]

generateFallbackSubtitle(cfg, tone, lang) ==
    LET langSubtitles == FallbackSubtitleTable(cfg, lang)
        text == IF tone \in DOMAIN langSubtitles /\ langSubtitles[tone] # ""
                THEN langSubtitles[tone]
                ELSE "Take advantage of our offer on " \o cfg.product \o "."
    IN  Substring0(text, SubtitleLimit)

FallbackCTATable(lang) ==
    IF lang = "Spanish"
    THEN [urgent |-> "¡Reserva Ya!",
          elegant |-> "Solicita Info",
          casual |-> "¡Pruébalo!",
          fun |-> "¡Únete!",
          exclusive |-> "¡Accede Aquí!",
          friendly |-> "¡Ven con Nosotros!",
          informative |-> "Leer Más",
          inspiring |-> "¡Empieza Hoy!"]
    ELSE [urgent |-> "Book Now!",
          elegant |-> "Request Info",
          casual |-> "Try It Now!",
          fun |-> "Join the Party!",
          exclusive |-> "Access Here!",
          friendly |-> "Come With Us!",
          informative |-> "Read More",
          inspiring |-> "Start Today!"]

generateFallbackCTA(tone, lang) ==
    LET langCtas == FallbackCTATable(lang)
        text == IF tone \in DOMAIN langCtas /\ langCtas[tone] # ""
                THEN langCtas[tone]
                ELSE "More Info!"
    IN  Substring0(text, CTALimit)

FallbackDescriptionTable(cfg, lang) ==
    IF lang = "Spanish"
    THEN [urgent |-> "No dejes pasar esta oferta especial en " \o cfg.product
                     \o ". Válida solo hasta " \o cfg.validity
                     \o ". ¡Visítanos en "
                     \o (IF cfg.location # "" THEN cfg.location ELSE "nuestra tienda")
                     \o "!",
          elegant |-> "Sumérgete en la experiencia premium de " \o cfg.product
                      \o ". Diseño y funcionalidad se unen para ti.",
          casual |-> "¿Buscas algo diferente? Nuestro " \o cfg.product
                     \o " es perfecto para tu día a día.",
          fun |-> "Prepárate para la diversión con " \o cfg.product
                  \o ". ¡Ideal para cualquier ocasión!",
          exclusive |-> "Una oportunidad única para acceder a lo mejor de "
                        \o cfg.product \o ". ¡Solo por invitación!",
          friendly |-> "Momentos inolvidables te esperan con " \o cfg.product
                       \o ". Ideal para compartir en familia.",
          informative |-> "Descubre las características clave y beneficios de "
                          \o cfg.product \o ".",
          inspiring |-> "Da el siguiente paso hacia tus sueños con "
                        \o cfg.product \o "."]
    ELSE [urgent |-> "Don't miss this special offer on " \o cfg.product
                     \o ". Valid only until " \o cfg.validity
                     \o ". Visit us at "
                     \o (IF cfg.location # "" THEN cfg.location ELSE "our store")
                     \o "!",
          elegant |-> "Immerse yourself in the premium experience of " \o cfg.product
                      \o ". Design and functionality come together for you.",
          casual |-> "Looking for something different? Our " \o cfg.product
                     \o " is perfect for your daily life.",
          fun |-> "Get ready for fun with " \o cfg.product
                  \o ". Ideal for any occasion!",
          exclusive |-> "A unique opportunity to access the best of "
                        \o cfg.product \o ". By invitation only!",
          friendly |-> "Unforgettable moments await you with " \o cfg.product
                       \o ". Ideal for sharing with family.",
          informative |-> "Discover the key features and benefits of "
                          \o cfg.product \o ".",
          inspiring |-> "Take the next step towards your dreams with "
                        \o cfg.product \o "."]

generateFallbackDescription(cfg, tone, index, lang) ==
    LET langDescriptions == FallbackDescriptionTable(cfg, lang)
        text == IF tone \in DOMAIN langDescriptions /\ langDescriptions[tone] # ""
                THEN langDescriptions[tone]
                ELSE "Take advantage of our incredible " \o cfg.offer \o " on "
                     \o cfg.product \o ". " \o cfg.validity \o ". Visit us at "
                     \o cfg.location \o "."
    IN  Substring0(text, DescriptionLimit)

\* getFallbackTexts(language): the last-resort single variation.
getFallbackTexts(cfg, lang) ==
    IF lang = "Spanish"
    THEN [title |-> JStr("¡Oferta Especial de " \o cfg.product \o "!"),
          subtitle |-> JStr("Descubre más sobre nuestro " \o cfg.product \o " hoy."),
          callToAction |-> JStr("¡Infórmate!"),
          description |-> JStr("Aprovecha la oportunidad de conocer " \o cfg.product
                               \o " con nuestra oferta especial."),
          tone |-> JStr("general")]
    ELSE [title |-> JStr("Special Offer for " \o cfg.product \o "!"),
          subtitle |-> JStr("Discover more about our " \o cfg.product \o " today."),
          callToAction |-> JStr("Learn More!"),
          description |-> JStr("Take advantage of the opportunity to discover "
                               \o cfg.product \o " with our special offer."),
          tone |-> JStr("general")]

\* A slot that stays on the last tone once the list is used up.
FallbackSlot_NoCycle(cfg, index, lang) ==
    LET tone == baseTones[Min(index, Len(baseTones) - 1) + 1]
    IN  [title |-> JStr(generateFallbackTitle(cfg, tone, lang)),
         subtitle |-> JStr(generateFallbackSubtitle(cfg, tone, lang)),
         callToAction |-> JStr(generateFallbackCTA(tone, lang)),
         description |-> JStr(generateFallbackDescription(cfg, tone, index, lang)),
         tone |-> JStr(tone)]

\* One slot of the loop of generateFallbackVariations (index is 0-based).
FallbackSlot(cfg, index, lang) ==
    LET tone == baseTones[(index % Len(baseTones)) + 1]
    IN  [title |-> JStr(generateFallbackTitle(cfg, tone, lang)),
         subtitle |-> JStr(generateFallbackSubtitle(cfg, tone, lang)),
         callToAction |-> JStr(generateFallbackCTA(tone, lang)),
         description |-> JStr(generateFallbackDescription(cfg, tone, index, lang)),
         tone |-> JStr(tone)]

generateFallbackVariations(cfg, q, lang) ==
    LET fallbackVariations == [k \in 1..q |-> FallbackSlot(cfg, k - 1, lang)]
    IN  IF Len(fallbackVariations) = 0 /\ q > 0
        THEN <<getFallbackTexts(cfg, lang)>>
        ELSE fallbackVariations

-----------------------------------------------------------------------------
(* TextGenerator: parsing the response and acquiring the variations. *)

\* The keys that the `in` operator finds on a parsed value.
KeysOf(v) == IF v.t = "object" THEN DOMAIN v.o ELSE {}

\* The filter predicate of parseResponse.
IsCompleteVariation(v) ==
    /\ v.t \in {"object", "array"}           \* typeof v === 'object' && v !== null
    /\ FieldNames \subseteq KeysOf(v)

\* parseResponse returning an empty array instead of rethrowing.
parseResponse_ReturnsEmpty(json) ==
    IF json.t = "array"
    THEN [threw |-> FALSE, value |-> SelectSeq(json.a, IsCompleteVariation)]
    ELSE [threw |-> FALSE, value |-> <<>>]

\* parseResponse(response): JSON.parse, then variations.filter(...).  Any
\* error inside the try block is replaced by a new Error that is thrown.
parseResponse(json) ==
    IF json.t = "invalid"
    THEN [threw |-> TRUE, value |-> <<>>]     \* JSON.parse throws SyntaxError
    ELSE IF json.t # "array"
    THEN [threw |-> TRUE, value |-> <<>>]     \* .filter is not a function
    ELSE [threw |-> FALSE,
          value |-> SelectSeq(json.a, IsCompleteVariation)]

\* The TextVariation objects that a parsed array of complete objects stands for.
AsVariations(objs) == [k \in 1..Len(objs) |-> objs[k].o]

\* TextGenerator.generateVariations(config, quantity, language), given what
\* the awaited request came back with.
generateVariations(cfg, q, lang, resp) ==
    IF resp.kind = "error"
    THEN generateFallbackVariations(cfg, q, lang)
    ELSE IF resp.kind = "nocontent"
    THEN generateFallbackVariations(cfg, q, lang)
    ELSE LET parsed == parseResponse(resp.json)
         IN  IF parsed.threw
             THEN generateFallbackVariations(cfg, q, lang)
             ELSE AsVariations(parsed.value)

-----------------------------------------------------------------------------
(* FlyerGenerator. *)

DefaultColor == "#3498DB"

FormatsOf(e) ==
    IF e = "generateForAllFormats"
    THEN <<"facebook", "instagram", "story">>
    ELSE <<"facebook">>

\* What indexing past an array yields.
Undefined == [t |-> "undefined"]

\* textVariations[i % textVariations.length]
SelectVariation(variations, idx) ==
    IF Len(variations) = 0
    THEN Undefined                             \* variations[NaN]
    ELSE variations[(idx % Len(variations)) + 1]

\* Colour selection without the modulo: past the list, the default.
SelectColor_NoCycle(colors, idx) ==
    IF idx + 1 > Len(colors) THEN "#3498DB" ELSE colors[idx + 1]

\* config.colors[i % config.colors.length] || '#3498DB'
SelectColor(colors, idx) ==
    IF Len(colors) = 0
    THEN DefaultColor                          \* colors[NaN] is undefined
    ELSE LET c == colors[(idx % Len(colors)) + 1]
         IN  IF c = "" THEN DefaultColor ELSE c

\* textVariation?.tone || 'generic'
ToneLabel(tv) ==
    IF tv = Undefined THEN "generic"
    ELSE IF Falsy(tv.tone) THEN "generic"
    ELSE ToStr(tv.tone)

\* A filename that leaves the cell index out.
Filename_NoIndex(idx, tv, format) ==
    "flyer_" \o ToneLabel(tv) \o "_" \o format \o ".png"

\* `flyer_${i + 1}_${tone}_${format}.png`
Filename(idx, tv, format) ==
    "flyer_" \o ToString(idx + 1) \o "_" \o ToneLabel(tv) \o "_" \o format \o ".png"

\* `flyer_custom_${textVariation.tone || 'custom'}_${format}_${timestamp}.png`
SingleFilename(tv, format, timestamp) ==
    "flyer_custom_" \o (IF Falsy(tv.tone) THEN "custom" ELSE ToStr(tv.tone))
        \o "_" \o format \o "_" \o timestamp \o ".png"

\* The default of the colors parameter of generateCustomVariations.
DefaultColors == <<"#3498DB", "#E74C3C", "#2ECC71">>

\* A quick configuration that always takes the default colours.
QuickConfig_DefaultColors(product, offer, colors) ==
    [product |-> product, offer |-> offer, validity |-> "Limited time offer",
     location |-> "Visit our store!", colors |-> DefaultColors]

\* quickConfig of generateCustomVariations, in the fields the pipeline reads
\* (businessType, phone, schedule and sizes are constants it does not read).
QuickConfig(product, offer, colors) ==
    [product |-> product, offer |-> offer, validity |-> "Limited time offer",
     location |-> "Visit our store!",
     colors |-> IF colors = Undefined THEN DefaultColors ELSE colors]

\* Where a call goes on once the output directory is there.
AfterDirectory(e) == IF e = "generateSingleFlyer" THEN "renderSingle" ELSE "request"

\* ensureOutputDirectory swallowing every mkdir error.
EnsureOutputDirectoryThrows_Swallow(outcome) == FALSE

\* ensureOutputDirectory rethrowing every mkdir error.
EnsureOutputDirectoryThrows_NoTolerance(outcome) == outcome # "ok"

\* ensureOutputDirectory: the catch block rethrows unless error.code is EEXIST.
EnsureOutputDirectoryThrows(outcome) == outcome \notin {"ok", "EEXIST"}

\* A catch block that rethrows the render error.
OnRenderError_Rethrow == "rethrow"

\* The catch block around imageGenerator.generateFlyer logs and goes on.
OnRenderError == "continue"

\* The empty check left out.
NoVariations_Unchecked(variations) == FALSE

\* The check on the acquired variations: length 0 is fatal.
NoVariations(variations) == Len(variations) = 0

\* A loop that stops at the number of available variations.
LoopContinues_CappedByVariations(idx, q, variations) ==
    idx < q /\ idx < Len(variations)

\* The loop condition i < quantity.
LoopContinues(idx, q, variations) == idx < q

\* A generateVariations that sends the request again after a failed call.
AfterResponse_Retry(e, resp) ==
    IF resp.kind = "error" THEN "request"
    ELSE IF e = "TextGenerator.generateVariations" THEN "returned" ELSE "acquired"

\* Where TextGenerator.generateVariations goes once the request has come
\* back: it returns (the parsed variations or the fallback), whatever came.
AfterResponse(e, resp) ==
    IF e = "TextGenerator.generateVariations" THEN "returned" ELSE "acquired"

-----------------------------------------------------------------------------
(* Colour derivation: ImageGenerator.getContrastColor and darkenColor,     *)
(* FlyerGenerator.getAccentColor.  A channel is a number in 0..255 or NaN. *)

\* The value parseInt returns when the text starts with no hexadecimal digit.
NaN == -1

LowerHex == "0123456789abcdef"
UpperHex == "0123456789ABCDEF"

\* The value of one hexadecimal digit, NaN for any other character.
HexValue(c) ==
    IF \E k \in 1..16 : c = SubSeq(LowerHex, k, k) \/ c = SubSeq(UpperHex, k, k)
    THEN (CHOOSE k \in 1..16 :
              c = SubSeq(LowerHex, k, k) \/ c = SubSeq(UpperHex, k, k)) - 1
    ELSE NaN

\* String.prototype.substring(from, to) with from <= to.
Substring(s, from, to) == SubSeq(s, Min(from, Len(s)) + 1, Min(to, Len(s)))

\* parseInt(s, 16) of a text of at most two characters, none of them a
\* sign, a blank or an x: the longest prefix of hexadecimal digits.
parseInt16(s) ==
    IF Len(s) = 0 THEN NaN
    ELSE LET d1 == HexValue(SubSeq(s, 1, 1))
         IN  IF d1 = NaN THEN NaN
             ELSE IF Len(s) = 1 THEN d1
             ELSE LET d2 == HexValue(SubSeq(s, 2, 2))
                  IN  IF d2 = NaN THEN d1 ELSE 16 * d1 + d2

\* color.replace('#', ''): the first '#' is removed, wherever it is.
RemoveHash(color) ==
    IF \E k \in 1..Len(color) : SubSeq(color, k, k) = "#"
    THEN LET at == CHOOSE k \in 1..Len(color) :
                       /\ SubSeq(color, k, k) = "#"
                       /\ \A j \in 1..(k - 1) : SubSeq(color, j, j) # "#"
         IN  SubSeq(color, 1, at - 1) \o SubSeq(color, at + 1, Len(color))
    ELSE color

\* The three channels read from hex.substring(0, 2), (2, 4) and (4, 6).
Channels(color) ==
    LET hex == RemoveHash(color)
    IN  <<parseInt16(Substring(hex, 0, 2)),
          parseInt16(Substring(hex, 2, 4)),
          parseInt16(Substring(hex, 4, 6))>>

\* Number.prototype.toString(16) of a channel.
toString16(n) ==
    IF n = NaN THEN "NaN"
    ELSE IF n < 16 THEN SubSeq(LowerHex, n + 1, n + 1)
    ELSE SubSeq(LowerHex, (n \div 16) + 1, (n \div 16) + 1)
             \o SubSeq(LowerHex, (n % 16) + 1, (n % 16) + 1)

\* padStart(2, '0')
padStart2(s) == IF Len(s) < 2 THEN Repeat("0", 2 - Len(s)) \o s ELSE s

\* `#${r.toString(16).padStart(2, '0')}${g...}${b...}`
EncodeColor(r, g, b) ==
    "#" \o padStart2(toString16(r)) \o padStart2(toString16(g))
        \o padStart2(toString16(b))

\* The colours whose weighted sum 299 r + 587 g + 114 b is exactly 127500
\* and whose luminance, evaluated in double precision as
\* (0.299 * r + 0.587 * g + 0.114 * b) / 255, comes out above 0.5
\* (0.5000000000000001 for 218, 58, 248); at the other 113 colours of that
\* sum the double is 0.5 or just below it.
RoundsAboveHalf == { <<218, 58, 248>> }

\* luminance > 0.5.  Away from the sum 127500 the double comparison agrees
\* with the exact one (the gap to 0.5 is at least 1/255000); a comparison
\* with NaN is false.
LuminanceAboveHalf(r, g, b) ==
    IF r = NaN \/ g = NaN \/ b = NaN THEN FALSE
    ELSE LET weighted == 299 * r + 587 * g + 114 * b
         IN  IF weighted = 127500
             THEN <<r, g, b>> \in RoundsAboveHalf
             ELSE weighted > 127500

getContrastColor(backgroundColor) ==
    LET c == Channels(backgroundColor)
    IN  IF LuminanceAboveHalf(c[1], c[2], c[3]) THEN "#000000" ELSE "#FFFFFF"

\* Math.floor(channel * (1 - factor)) for a factor of tenths / 10, in double
\* precision.  For the factors 0, 0.2, 0.5 and 1 the product floors to the
\* exact quotient at every channel value.  1 - 0.9 is 0.09999999999999998,
\* so at the factor 0.9 the product of a positive multiple of ten falls
\* just below its integer (10 gives 0.9999999999999998) and floors one lower.
DarkenChannel(channel, tenths) ==
    IF channel = NaN THEN NaN
    ELSE LET exact == (channel * (10 - tenths)) \div 10
         IN  IF tenths = 9 /\ channel > 0 /\ channel % 10 = 0
             THEN exact - 1
             ELSE exact

darkenColor(color, tenths) ==
    LET c == Channels(color)
    IN  EncodeColor(DarkenChannel(c[1], tenths), DarkenChannel(c[2], tenths),
                    DarkenChannel(c[3], tenths))

\* The accent channel without the modulo: the clamp alone bounds it.
AccentChannel_NoWrap(channel) ==
    IF channel = NaN THEN NaN
    ELSE LET shifted == 255 - channel + 100
         IN  Min(255, IF shifted < 0 THEN 0 ELSE shifted)

\* Math.min(255, Math.max(0, (255 - channel + 100) % 256))
AccentChannel(channel) ==
    IF channel = NaN THEN NaN
    ELSE LET shifted == (255 - channel + 100) % 256
         IN  Min(255, IF shifted < 0 THEN 0 ELSE shifted)

getAccentColor(baseColor) ==
    IF baseColor = "" \/ SubSeq(baseColor, 1, 1) # "#" \/ Len(baseColor) # 7
    THEN "#FFD700"
    ELSE LET c == Channels(baseColor)
         IN  IF c[1] # NaN /\ c[1] = c[2] /\ c[2] = c[3]
             THEN "#00BFFF"
             ELSE EncodeColor(AccentChannel(c[1]), AccentChannel(c[2]),
                              AccentChannel(c[3]))

-----------------------------------------------------------------------------
(* Markup: ImageGenerator.createSVG and                                     *)
(* BrowserFlyerGenerator.generateFlyerHTML.  A markup is kept as the         *)
(* sequence of the literal texts its template embeds, in document order;     *)
(* tags, geometry and style attributes are left out.                         *)

\* text.replace(/c/g, r) for a single character c.
RECURSIVE ReplaceAll(_, _, _)
ReplaceAll(s, c, r) ==
    IF Len(s) = 0 THEN ""
    ELSE (IF SubSeq(s, 1, 1) = c THEN r ELSE SubSeq(s, 1, 1))
             \o ReplaceAll(SubSeq(s, 2, Len(s)), c, r)

\* escapeXML: five replacements in a row, the ampersand first.
escapeXML(text) ==
    ReplaceAll(ReplaceAll(ReplaceAll(ReplaceAll(ReplaceAll(
        text, "&", "&amp;"), "<", "&lt;"), ">", "&gt;"), "\"", "&quot;"),
        "'", "&#39;")

\* text.split(' ')
RECURSIVE SplitOnSpace(_)
SplitOnSpace(text) ==
    IF \E k \in 1..Len(text) : SubSeq(text, k, k) = " "
    THEN LET at == CHOOSE k \in 1..Len(text) :
                       /\ SubSeq(text, k, k) = " "
                       /\ \A j \in 1..(k - 1) : SubSeq(text, j, j) # " "
         IN  <<SubSeq(text, 1, at - 1)>>
                 \o SplitOnSpace(SubSeq(text, at + 1, Len(text)))
    ELSE <<text>>

\* The loop of createMultilineText over the words, then the last push.
RECURSIVE WrapWords(_, _, _, _)
WrapWords(words, lines, currentLine, charsPerLine) ==
    IF words = <<>>
    THEN IF currentLine # "" THEN Append(lines, currentLine) ELSE lines
    ELSE LET word == Head(words)
         IN  IF Len(currentLine \o word) <= charsPerLine
             THEN WrapWords(Tail(words), lines,
                            currentLine \o (IF currentLine # "" THEN " " ELSE "")
                                \o word,
                            charsPerLine)
             ELSE WrapWords(Tail(words),
                            IF currentLine # "" THEN Append(lines, currentLine)
                            ELSE lines,
                            word, charsPerLine)

\* Math.floor(maxWidth / (fontSize * 0.6)) with maxWidth = width * 0.8 and
\* fontSize = Math.max(14, width * 0.025): 53 at the widths 1080 and 1200.
CharsPerLine(width) ==
    LET fontSize1000 == IF 25 * width > 14000 THEN 25 * width ELSE 14000
    IN  (8000 * width) \div (6 * fontSize1000)

\* createMultilineText: one text element per line, its content escaped.
createMultilineText(text, width) ==
    LET lines == WrapWords(SplitOnSpace(text), <<>>, "", CharsPerLine(width))
    IN  [k \in 1..Len(lines) |-> escapeXML(lines[k])]

\* createSVG: title, subtitle, description lines, call to action.
createSVG(text, width) ==
    <<escapeXML(text.title), escapeXML(text.subtitle)>>
        \o createMultilineText(text.description, width)
        \o <<escapeXML(text.callToAction)>>

\* businessType.charAt(0).toUpperCase()
Initial(s) ==
    LET lower == "abcdefghijklmnopqrstuvwxyz"
        upper == "ABCDEFGHIJKLMNOPQRSTUVWXYZ"
        c == SubSeq(s, 1, Min(1, Len(s)))
    IN  IF \E k \in 1..26 : c = SubSeq(lower, k, k)
        THEN LET at == CHOOSE k \in 1..26 : c = SubSeq(lower, k, k)
             IN  SubSeq(upper, at, at)
        ELSE c

\* generateFlyerHTML for a non-empty variations array: the interpolations
\* of the template that carry text; a falsy validity, phone, location or
\* schedule leaves its paragraph out.
generateFlyerHTML(preferences, variations) ==
    LET selectedVariation == variations[1]
        Optional(s) == IF s = "" THEN <<>> ELSE <<s>>
    IN  <<preferences.product, Initial(preferences.businessType),
          selectedVariation.title, preferences.offer, preferences.product,
          selectedVariation.description, selectedVariation.cta>>
            \o Optional(preferences.validity)
            \o Optional(preferences.phone)
            \o Optional(preferences.location)
            \o Optional(preferences.schedule)
            \o <<preferences.businessType>>

-----------------------------------------------------------------------------
(* BrowserFlyerGenerator and the two flows of browser-example.ts. *)

\* preferences.product.replace(/[^a-zA-Z0-9]/g, '_')
RECURSIVE Sanitize(_)
Sanitize(s) ==
    LET kept == "abcdefghijklmnopqrstuvwxyzABCDEFGHIJKLMNOPQRSTUVWXYZ0123456789"
    IN  IF Len(s) = 0 THEN ""
        ELSE (IF \E k \in 1..Len(kept) : SubSeq(kept, k, k) = SubSeq(s, 1, 1)
              THEN SubSeq(s, 1, 1) ELSE "_")
                 \o Sanitize(SubSeq(s, 2, Len(s)))

\* An output path that leaves the flyer number out.
MultipleFlyerPath_NoIndex(product, idx, timestamp) ==
    "output_flyers/flyer_" \o Sanitize(product) \o "_" \o timestamp \o ".png"

\* The output path generateMultipleFlyers gives to flyer idx (0-based).
MultipleFlyerPath(product, idx, timestamp) ==
    "output_flyers/flyer_" \o Sanitize(product) \o "_v" \o ToString(idx + 1)
        \o "_" \o timestamp \o ".png"

\* generateOutputPath
generateOutputPath(product, timestamp) ==
    "output_flyers/flyer_" \o Sanitize(product) \o "_" \o timestamp \o ".png"

\* initialize(): puppeteer.launch only while this.browser is null.
Initialized(b) ==
    IF b.open THEN b
    ELSE [open |-> TRUE, launches |-> b.launches + 1, closes |-> b.closes]

\* close(): browser.close() and this.browser = null, if there is a browser.
Closed(b) ==
    IF b.open
    THEN [open |-> FALSE, launches |-> b.launches, closes |-> b.closes + 1]
    ELSE b

\* A new BrowserFlyerGenerator(): its browser field is null; the browsers
\* launched before are still counted.
NewGenerator(b) == [open |-> FALSE, launches |-> b.launches, closes |-> b.closes]

\* The formats testMultipleFormats goes through.
BrowserFormats == <<"square", "story", "banner", "post">>

-----------------------------------------------------------------------------
(* Inputs. *)

BatchEntries == {"generateVariations", "generateForAllFormats"}
TextEntry == "TextGenerator.generateVariations"

LongText == Repeat("promo ", LongLen \div 6)

Languages == {"English", "Spanish", "French"}

Brief(product, offer, validity, location, colors) ==
    [product |-> product, offer |-> offer, validity |-> validity,
     location |-> location, colors |-> colors]

ColorLists == { <<>>, <<"#FF0000", "#00FF00", "#808080">> }

BatchConfigs ==
    { Brief("Pizza", "50% off", "Valid until Friday", "Main St 1", c) : c \in ColorLists }

TextConfigs ==
    { Brief("", "", "", "", <<"#FF0000">>),
      Brief("Pizza", "50% off", "Valid until Friday", "Main St 1", <<"#FF0000">>),
      Brief(LongText, "", "", "", <<"#FF0000">>),
      Brief("", LongText, LongText, LongText, <<"#FF0000">>),
      Brief(LongText, LongText, LongText, LongText, <<"#FF0000">>) }

AiObject(tone) ==
    JObj([title |-> JStr("Hot deal"), subtitle |-> JStr("Only today"),
          callToAction |-> JStr("Buy"), description |-> JStr("Come in."),
          tone |-> tone])

AiElements ==
    { AiObject(JStr("2_generic")), AiObject(JNull),
      JObj([title |-> JStr("Hot deal"), tone |-> JStr("fun")]),
      JNum("7"), JNull }

RECURSIVE SeqsUpTo(_, _)
SeqsUpTo(S, n) ==
    IF n = 0 THEN { <<>> }
    ELSE LET shorter == SeqsUpTo(S, n - 1)
         IN  shorter \cup { Append(s, e) : s \in shorter, e \in S }

AiJson ==
    { [t |-> "invalid"], JNull, JNum("7"), JStr("sorry"),
      JObj([variations |-> JArr(<<AiObject(JStr("fun"))>>)]) }
    \cup { JArr(a) : a \in SeqsUpTo(AiElements, MaxAiLen) }

Responses ==
    { [kind |-> "error"], [kind |-> "nocontent"] }
    \cup { [kind |-> "content", json |-> j] : j \in AiJson }

NoResponse == [kind |-> "none"]

MkdirOutcomes == {"ok", "EEXIST", "EACCES"}

NoArgs == [t |-> "none"]
NoConfig == Brief("", "", "", "", <<>>)

SingleEntry == "generateSingleFlyer"
CustomEntry == "generateCustomVariations"

\* Values of Date.now(), as the template literal prints them.
Timestamps == {"1700000000000", "1700000000001"}

SingleArgs ==
    { [textVariation |-> tv, color |-> c, format |-> fmt] :
        tv \in { [title |-> JStr("Hot deal"), subtitle |-> JStr("Only today"),
                  callToAction |-> JStr("Buy"), description |-> JStr("Come in."),
                  tone |-> t] : t \in {JStr("fun"), JStr("")} },
        c \in {"#3498DB", "#FF0000"},
        fmt \in {"facebook", "instagram", "story"} }

CustomArgs ==
    { [product |-> "Pizza", offer |-> "50% off", colors |-> c, quantity |-> q] :
        c \in { Undefined, <<"#FF0000", "#00FF00">> }, q \in 0..MaxQuantity }
NoResult == [t |-> "none"]
NoBrowser == [open |-> FALSE, launches |-> 0, closes |-> 0]

BrowserEntries == {"generateBrowserFlyer", "testMultipleFormats"}

\* The preferences literal of each flow, in the fields the pipeline reads.
PreferencesOf(e) ==
    IF e = "generateBrowserFlyer"
    THEN Brief("Pizza Margherita Especial", "50% OFF en tu primera orden",
               "31 de Diciembre 2024", "Av. Providencia 123, Santiago",
               <<"purple", "pink">>)
    ELSE Brief("Café Premium", "2x1 en todos los cafés", "15 de Enero 2025",
               "Mall Plaza Norte", <<"blue", "green">>)

\* What the text source answers in the browser flows.
BrowserResponses ==
    { [kind |-> "error"],
      [kind |-> "content", json |-> JArr(<<>>)],
      [kind |-> "content", json |-> JArr(<<AiObject(JStr("fun"))>>)] }

\* new Date().toISOString().replace(/[:.]/g, '-')
IsoTimestamps == {"2025-01-01T00-00-00-000Z"}

MarkupEntries == {"createSVG", "generateFlyerHTML"}

\* Texts with and without the characters XML gives a meaning to.
MarkupTexts ==
    { "Hot deal", "Tom & Jerry's <b>\"50%\"</b>", "a&lt;b" }

LongMarkupText ==
    "Fresh pasta & pizza <every day>, made by Tom's kitchen: \"the best\" in town."

SvgArgs ==
    { [text |-> [title |-> t, subtitle |-> s, description |-> d,
                 callToAction |-> c, tone |-> "fun"],
       width |-> w] :
        t \in MarkupTexts, s \in {"Only today", "<now>"},
        d \in MarkupTexts \cup {"", LongMarkupText}, c \in {"Buy", "Don't wait"},
        w \in {1080, 1200} }

HtmlArgs ==
    { [preferences |-> [product |-> p, businessType |-> "restaurant",
                        offer |-> o, validity |-> v, location |-> "Main St 1",
                        phone |-> "", schedule |-> "Mon-Sat",
                        colors |-> <<"purple", "pink">>],
       variations |-> vs] :
        p \in MarkupTexts, o \in {"50% off", "2 > 1"}, v \in {"", "Friday"},
        vs \in { <<>> } \cup
                { <<[title |-> t, description |-> "Come in.", cta |-> "Buy"]>> :
                      t \in MarkupTexts } }

ColorEntries == {"getContrastColor", "darkenColor", "getAccentColor"}

ValidColors ==
    { "#000000", "#FFFFFF", "#ffffff", "#FF0000", "#ff0000", "#00FF00",
      "#0000FF", "#808080", "#7F7F7F", "#3498DB", "#E74C3C", "#0a0B0c",
      "#DA3AF8", "#da3af8", "#00CC44", "#16CE00", "#0A141E", "#010101",
      "#fefefe" }

MalformedColors ==
    { "", "FF0000", "#FFF", "#GGGGGG", "red", "#FF00", "#12345G", "#FF00000" }

ColorInputs == ValidColors \cup MalformedColors

\* Darkening factors, in tenths: 0, 0.2 (the gradient of createSVG), 0.5,
\* 0.9 and 1.
DarkenTenths == {0, 2, 5, 9, 10}

-----------------------------------------------------------------------------
(* The state machine. *)

\* No call has touched the file system, the text source or the renderer.
NothingDone ==
    /\ dirOutcome = "none"
    /\ aiCalls = 0
    /\ response = NoResponse
    /\ textVariations = <<>>
    /\ i = 0
    /\ f = 1
    /\ flyers = <<>>
    /\ attempted = <<>>
    /\ files = {}
    /\ thrown = "none"
    /\ result = NoResult
    /\ browser = NoBrowser
    /\ procs = <<>>
    /\ now = 0

Init ==
    /\ \/ /\ entry \in BatchEntries
          /\ config \in BatchConfigs
          /\ quantity \in 0..MaxQuantity
          /\ language = "English"            \* the default of the parameter
          /\ pc = "start"
          /\ args = NoArgs
       \/ /\ entry = TextEntry
          /\ config \in TextConfigs
          /\ quantity \in 0..MaxTextQuantity
          /\ language \in Languages
          /\ pc = "request"
          /\ args = NoArgs
       \/ /\ entry = SingleEntry
          /\ config \in BatchConfigs
          /\ quantity = 1
          /\ language = "English"
          /\ pc = "start"
          /\ args \in SingleArgs
       \/ /\ entry = CustomEntry
          /\ config = NoConfig               \* quickConfig is not built yet
          /\ quantity = 0
          /\ language = "English"
          /\ pc = "custom"
          /\ args \in CustomArgs
    /\ NothingDone

\* await this.ensureOutputDirectory()
EnsureOutputDirectory ==
    /\ UNCHANGED <<procs, now>>
    /\ pc = "start"
    /\ \E outcome \in MkdirOutcomes :
        /\ dirOutcome' = outcome
        /\ IF EnsureOutputDirectoryThrows(outcome)
           THEN pc' = "thrown" /\ thrown' = "mkdir"
           ELSE pc' = AfterDirectory(entry) /\ thrown' = thrown
    /\ UNCHANGED <<args, result, browser>>
    /\ UNCHANGED <<entry, config, quantity, language, aiCalls, response,
                   textVariations, i, f, flyers, attempted, files>>

\* TextGenerator.generateVariations up to the awaited create() call.
RequestText ==
    /\ UNCHANGED <<procs, now>>
    /\ pc = "request"
    /\ aiCalls' = aiCalls + 1
    /\ pc' = "awaitAI"
    /\ UNCHANGED <<args, result, browser>>
    /\ UNCHANGED <<entry, config, quantity, language, dirOutcome, response,
                   textVariations, i, f, flyers, attempted, files, thrown>>

\* TextGenerator.generateVariations from the resumption to its return.
ReceiveText ==
    /\ UNCHANGED <<procs, now>>
    /\ pc = "awaitAI"
    /\ \E resp \in Responses :
        /\ response' = resp
        /\ textVariations' = generateVariations(config, quantity, language, resp)
        /\ pc' = AfterResponse(entry, resp)
    /\ UNCHANGED <<args, result, browser>>
    /\ UNCHANGED <<entry, config, quantity, language, dirOutcome, aiCalls,
                   i, f, flyers, attempted, files, thrown>>

\* The batch resumes with the variations: the empty check and the loop entry.
CheckTextVariations ==
    /\ UNCHANGED <<procs, now>>
    /\ pc = "acquired"
    /\ IF NoVariations(textVariations)
       THEN pc' = "thrown" /\ thrown' = "notext"
       ELSE /\ pc' = IF LoopContinues(0, quantity, textVariations)
                     THEN "render" ELSE "returned"
            /\ thrown' = thrown
    /\ response' = NoResponse
    /\ UNCHANGED <<args, result, browser>>
    /\ UNCHANGED <<entry, config, quantity, language, dirOutcome, aiCalls,
                   textVariations, i, f, flyers, attempted, files>>

CellVariation == SelectVariation(textVariations, i)
CellColor == SelectColor(config.colors, i)
CellFormat == FormatsOf(entry)[f]
CellFilename == Filename(i, CellVariation, CellFormat)

\* The loop counters after the current cell; the loop ends at i = quantity.
Advance ==
    IF f < Len(FormatsOf(entry))
    THEN /\ f' = f + 1
         /\ i' = i
         /\ pc' = "render"
    ELSE /\ f' = 1
         /\ i' = i + 1
         /\ pc' = IF LoopContinues(i + 1, quantity, textVariations)
                  THEN "render" ELSE "returned"

Failures == Cardinality({k \in 1..Len(attempted) : ~attempted[k].ok})

\* What a cell hands to imageGenerator.generateFlyer.
CellAttempt(ok) ==
    [i |-> i, format |-> CellFormat, filename |-> CellFilename,
     variation |-> CellVariation, color |-> CellColor, ok |-> ok]

\* One cell whose try block runs to its end: generateFlyer resolves and the
\* flyer is pushed (nothing is rendered for an undefined variation).
CellCompletes ==
    /\ UNCHANGED <<procs, now>>
    /\ pc = "render"
    /\ IF CellVariation = Undefined
       THEN UNCHANGED <<attempted, files, flyers>>
       ELSE /\ attempted' = Append(attempted, CellAttempt(TRUE))
            /\ files' = files \cup {CellFilename}
            /\ flyers' = Append(flyers,
                  [filename |-> CellFilename, textVariation |-> CellVariation,
                   color |-> CellColor, format |-> CellFormat])
    /\ Advance
    /\ UNCHANGED <<args, result, browser>>
    /\ UNCHANGED <<entry, config, quantity, language, dirOutcome, aiCalls,
                   response, textVariations, thrown>>

\* One cell whose imageGenerator.generateFlyer rejects.
CellRenderRejects ==
    /\ UNCHANGED <<procs, now>>
    /\ pc = "render"
    /\ CellVariation # Undefined
    /\ Failures < MaxFailures
    /\ attempted' = Append(attempted, CellAttempt(FALSE))
    /\ IF OnRenderError = "continue"
       THEN Advance /\ thrown' = thrown
       ELSE pc' = "thrown" /\ thrown' = "render" /\ UNCHANGED <<i, f>>
    /\ UNCHANGED <<args, result, browser>>
    /\ UNCHANGED <<entry, config, quantity, language, dirOutcome, aiCalls,
                   response, textVariations, flyers, files>>

\* generateCustomVariations: quickConfig is built and the call is handed to
\* generateVariations(quickConfig, quantity).
BuildQuickConfig ==
    /\ UNCHANGED <<procs, now>>
    /\ pc = "custom"
    /\ config' = QuickConfig(args.product, args.offer, args.colors)
    /\ quantity' = args.quantity
    /\ pc' = "start"
    /\ UNCHANGED <<entry, language, dirOutcome, aiCalls, response,
                   textVariations, i, f, flyers, attempted, files, thrown,
                   args, result, browser>>

\* What generateSingleFlyer hands to imageGenerator.generateFlyer.
SingleAttempt(timestamp, ok) ==
    [i |-> 0, format |-> args.format,
     filename |-> SingleFilename(args.textVariation, args.format, timestamp),
     variation |-> args.textVariation, color |-> args.color, ok |-> ok]

\* generateSingleFlyer: the render resolves and the flyer is returned.
SingleCompletes ==
    /\ UNCHANGED <<procs, now>>
    /\ pc = "renderSingle"
    /\ \E timestamp \in Timestamps :
        LET a == SingleAttempt(timestamp, TRUE)
        IN  /\ attempted' = Append(attempted, a)
            /\ files' = files \cup {a.filename}
            /\ flyers' = <<[filename |-> a.filename,
                            textVariation |-> a.variation,
                            color |-> a.color, format |-> a.format]>>
    /\ pc' = "returned"
    /\ UNCHANGED <<entry, config, quantity, language, dirOutcome, aiCalls,
                   response, textVariations, i, f, thrown, args, result,
                   browser>>

\* generateSingleFlyer: the render rejects and the error is thrown again.
SingleRejects ==
    /\ UNCHANGED <<procs, now>>
    /\ pc = "renderSingle"
    /\ \E timestamp \in Timestamps :
        attempted' = Append(attempted, SingleAttempt(timestamp, FALSE))
    /\ pc' = "thrown"
    /\ thrown' = "render"
    /\ UNCHANGED <<entry, config, quantity, language, dirOutcome, aiCalls,
                   response, textVariations, i, f, flyers, files, args,
                   result, browser>>

Next ==
    \/ BuildQuickConfig
    \/ SingleCompletes
    \/ SingleRejects
    \/ EnsureOutputDirectory
    \/ RequestText
    \/ ReceiveText
    \/ CheckTextVariations
    \/ CellCompletes
    \/ CellRenderRejects

Spec == Init /\ [][Next]_vars

-----------------------------------------------------------------------------
(* The command line: main maps --format to a format choice and calls        *)
(* generateFlyers(config, formatChoice, quantity, language), whose switch    *)
(* picks the FlyerGenerator method.  The interactive flow ends in the same   *)
(* switch.                                                                   *)

CliEntry == "cli.main"

\* Values of --format (main lower-cases the option before the switch).
FormatOptions == {"all", "facebook", "instagram", "stories", "story"}

\* The switch of main over options.format.toLowerCase().
FormatChoice(option) ==
    IF option = "facebook" THEN "Facebook only (1200x630)"
    ELSE IF option = "instagram" THEN "Instagram only (1080x1080)"
    ELSE IF option \in {"stories", "story"} THEN "Stories only (1080x1920)"
    ELSE "All formats (Facebook, Instagram, Stories)"

\* The switch of generateFlyers over formatChoice.
GeneratorMethod(formatChoice) ==
    IF formatChoice = "All formats (Facebook, Instagram, Stories)"
    THEN "generateForAllFormats"
    ELSE "generateVariations"

\* The language TextGenerator.generateVariations runs with when it is called
\* with two arguments, as both FlyerGenerator methods call it.
DefaultLanguage == "English"

CliArgs ==
    { [format |-> o, language |-> l, quantity |-> q] :
        o \in FormatOptions, l \in Languages, q \in 1..MaxCliQuantity }

InitCli ==
    /\ entry = CliEntry
    /\ args \in CliArgs
    /\ config = Brief("Pizza", "50% off", "Valid until Friday", "Main St 1",
                      <<"#FF0000", "#00FF00", "#808080">>)
    /\ quantity = 0
    /\ language = "none"
    /\ pc = "cli"
    /\ NothingDone

\* main and generateFlyers up to the call of the FlyerGenerator method; the
\* method has the parameters (config, quantity), so the language handed to
\* it as a third argument goes nowhere.
CliGenerateFlyers ==
    /\ UNCHANGED <<procs, now>>
    /\ pc = "cli"
    /\ entry' = GeneratorMethod(FormatChoice(args.format))
    /\ quantity' = args.quantity
    /\ language' = DefaultLanguage
    /\ pc' = "start"
    /\ UNCHANGED <<config, dirOutcome, aiCalls, response, textVariations, i, f,
                   flyers, attempted, files, thrown, args, result, browser>>

NextCli ==
    \/ CliGenerateFlyers
    \/ EnsureOutputDirectory
    \/ RequestText
    \/ ReceiveText
    \/ CheckTextVariations
    \/ CellCompletes
    \/ CellRenderRejects

SpecCli == InitCli /\ [][NextCli]_vars

-----------------------------------------------------------------------------
(* The two markup builders, each applied to one flyer. *)

InitMarkup ==
    /\ entry \in MarkupEntries
    /\ args \in IF entry = "createSVG" THEN SvgArgs ELSE HtmlArgs
    /\ config = NoConfig
    /\ quantity = 0
    /\ language = "English"
    /\ pc = "start"
    /\ NothingDone

\* createSVG(text, config)
CreateSVG ==
    /\ UNCHANGED <<procs, now>>
    /\ pc = "start"
    /\ entry = "createSVG"
    /\ result' = [t |-> "markup", texts |-> createSVG(args.text, args.width)]
    /\ pc' = "returned"
    /\ UNCHANGED <<entry, config, quantity, language, dirOutcome, aiCalls,
                   response, textVariations, i, f, flyers, attempted, files,
                   thrown, args, browser>>

\* generateFlyerHTML(preferences, variations); it throws 'No variations
\* provided' for an empty array.
GenerateFlyerHTML ==
    /\ UNCHANGED <<procs, now>>
    /\ pc = "start"
    /\ entry = "generateFlyerHTML"
    /\ IF Len(args.variations) = 0
       THEN /\ pc' = "thrown"
            /\ thrown' = "novariations"
            /\ result' = result
       ELSE /\ pc' = "returned"
            /\ thrown' = thrown
            /\ result' = [t |-> "markup",
                          texts |-> generateFlyerHTML(args.preferences,
                                                      args.variations)]
    /\ UNCHANGED <<entry, config, quantity, language, dirOutcome, aiCalls,
                   response, textVariations, i, f, flyers, attempted, files,
                   args, browser>>

NextMarkup == CreateSVG \/ GenerateFlyerHTML

SpecMarkup == InitMarkup /\ [][NextMarkup]_vars

-----------------------------------------------------------------------------
(* browser-example.ts: generateBrowserFlyer and testMultipleFormats. *)

InitBrowser ==
    /\ entry \in BrowserEntries
    /\ config = PreferencesOf(entry)
    /\ quantity = IF entry = "generateBrowserFlyer" THEN 3 ELSE 1
    /\ language = IF entry = "generateBrowserFlyer" THEN "spanish" ELSE "Spanish"
    /\ pc = "b_text"
    /\ args = NoArgs
    /\ NothingDone

\* testMultipleFormats: the iteration of the current format is over.
NextFormat ==
    IF f < Len(BrowserFormats)
    THEN f' = f + 1 /\ pc' = "b_text"
    ELSE f' = f /\ pc' = "returned"

\* await textGenerator.generateVariations(preferences, n, language) and the
\* emptiness check after it.
BrowserAcquireText ==
    /\ UNCHANGED <<procs, now>>
    /\ pc = "b_text"
    /\ \E resp \in BrowserResponses :
        LET tv == generateVariations(config, quantity, language, resp)
        IN  /\ response' = resp
            /\ textVariations' = tv
            /\ IF Len(tv) > 0
               THEN pc' = "b_init" /\ f' = f /\ thrown' = thrown
               ELSE IF entry = "generateBrowserFlyer"
               THEN pc' = "thrown" /\ f' = f /\ thrown' = "notext"
               ELSE NextFormat /\ thrown' = thrown
    /\ aiCalls' = aiCalls + 1
    /\ UNCHANGED <<entry, config, quantity, language, dirOutcome, i, flyers,
                   attempted, files, args, result, browser>>

\* new BrowserFlyerGenerator() and await browserGenerator.initialize().
BrowserLaunches ==
    /\ UNCHANGED <<procs, now>>
    /\ pc = "b_init"
    /\ browser' = Initialized(NewGenerator(browser))
    /\ i' = 0
    /\ pc' = "b_page"
    /\ UNCHANGED <<entry, config, quantity, language, dirOutcome, aiCalls,
                   response, textVariations, f, flyers, attempted, files,
                   thrown, args, result>>

\* puppeteer.launch rejects: the catch block of the flow takes over.
BrowserLaunchRejects ==
    /\ UNCHANGED <<procs, now>>
    /\ pc = "b_init"
    /\ browser' = NewGenerator(browser)
    /\ IF entry = "generateBrowserFlyer"
       THEN pc' = "thrown" /\ thrown' = "launch" /\ f' = f
       ELSE NextFormat /\ thrown' = thrown
    /\ UNCHANGED <<entry, config, quantity, language, dirOutcome, aiCalls,
                   response, textVariations, i, flyers, attempted, files,
                   args, result>>

\* The path of the flyer generateFlyer is writing.
BrowserPath(timestamp) ==
    IF entry = "generateBrowserFlyer"
    THEN MultipleFlyerPath(config.product, i, timestamp)
    ELSE generateOutputPath(config.product, timestamp)

BrowserAttempt(timestamp, ok) ==
    [i |-> i, format |-> IF entry = "generateBrowserFlyer" THEN "square"
                          ELSE BrowserFormats[f],
     filename |-> BrowserPath(timestamp), ok |-> ok]

\* generateFlyer resolves: the page is opened, rendered, written and closed.
\* generateMultipleFlyers goes on to its next flyer; after the last one the
\* flow calls close().
BrowserFlyerCompletes ==
    /\ UNCHANGED <<procs, now>>
    /\ pc = "b_page"
    /\ browser' = Initialized(browser)
    /\ \E timestamp \in IsoTimestamps :
        /\ attempted' = Append(attempted, BrowserAttempt(timestamp, TRUE))
        /\ files' = files \cup {BrowserPath(timestamp)}
    /\ i' = i + 1
    /\ pc' = IF entry = "generateBrowserFlyer"
                 /\ i + 1 < Min(quantity, Len(textVariations))
              THEN "b_page" ELSE "b_close"
    /\ UNCHANGED <<entry, config, quantity, language, dirOutcome, aiCalls,
                   response, textVariations, f, flyers, thrown, args, result>>

\* generateFlyer rejects: its finally block closes the page, the error goes
\* through generateMultipleFlyers to the catch block of the flow, which
\* logs it (and, in generateBrowserFlyer, throws it again).
BrowserFlyerRejects ==
    /\ UNCHANGED <<procs, now>>
    /\ pc = "b_page"
    /\ browser' = Initialized(browser)
    /\ \E timestamp \in IsoTimestamps :
        attempted' = Append(attempted, BrowserAttempt(timestamp, FALSE))
    /\ IF entry = "generateBrowserFlyer"
       THEN pc' = "thrown" /\ thrown' = "render" /\ f' = f
       ELSE NextFormat /\ thrown' = thrown
    /\ UNCHANGED <<entry, config, quantity, language, dirOutcome, aiCalls,
                   response, textVariations, i, flyers, files, args, result>>

\* await browserGenerator.close() and the rest of the try block.
BrowserClose ==
    /\ UNCHANGED <<procs, now>>
    /\ pc = "b_close"
    /\ browser' = Closed(browser)
    /\ IF entry = "generateBrowserFlyer"
       THEN pc' = "returned" /\ f' = f
       ELSE NextFormat
    /\ UNCHANGED <<entry, config, quantity, language, dirOutcome, aiCalls,
                   response, textVariations, i, flyers, attempted, files,
                   thrown, args, result>>

NextBrowser ==
    \/ BrowserAcquireText
    \/ BrowserLaunches
    \/ BrowserLaunchRejects
    \/ BrowserFlyerCompletes
    \/ BrowserFlyerRejects
    \/ BrowserClose

SpecBrowser == InitBrowser /\ [][NextBrowser]_vars

-----------------------------------------------------------------------------
(* The colour functions, each applied to one colour. *)

InitColor ==
    /\ entry \in ColorEntries
    /\ args \in IF entry = "darkenColor"
                THEN { [color |-> c, factor |-> t] :
                           c \in ColorInputs, t \in DarkenTenths }
                ELSE { [color |-> c] : c \in ColorInputs }
    /\ config = NoConfig
    /\ quantity = 0
    /\ language = "English"
    /\ pc = "start"
    /\ NothingDone

ApplyColorFunction ==
    /\ UNCHANGED <<procs, now>>
    /\ pc = "start"
    /\ entry \in ColorEntries
    /\ result' = [t |-> "color",
                  s |-> IF entry = "getContrastColor"
                        THEN getContrastColor(args.color)
                        ELSE IF entry = "darkenColor"
                        THEN darkenColor(args.color, args.factor)
                        ELSE getAccentColor(args.color)]
    /\ pc' = "returned"
    /\ UNCHANGED <<entry, config, quantity, language, dirOutcome, aiCalls,
                   response, textVariations, i, f, flyers, attempted, files,
                   thrown, args, browser>>

NextColor == ApplyColorFunction

SpecColor == InitColor /\ [][NextColor]_vars

TypeOK ==
    /\ pc \in {"start", "request", "awaitAI", "acquired", "render", "returned",
              "thrown", "custom", "renderSingle", "cli",
              "b_text", "b_init", "b_page", "b_close"}
    /\ aiCalls \in 0..1
    /\ thrown \in {"none", "mkdir", "notext", "render", "novariations", "launch"}
    /\ i \in 0..quantity

-----------------------------------------------------------------------------
(* Properties. *)

IsBatch == entry \in BatchEntries

\* TextGenerator.generateVariations has just returned to its caller.
Acquired == pc = "acquired" \/ (entry = TextEntry /\ pc = "returned")

\* The request failed, came back without content, or with content that is
\* not JSON or not a JSON array.
AcquisitionFailed(resp) ==
    \/ resp.kind \in {"error", "nocontent"}
    \/ resp.kind = "content" /\ resp.json.t # "array"

IsOk(a) == a.ok
Successes == SelectSeq(attempted, IsOk)
NumFormats == Len(FormatsOf(entry))

\* C1: for every quantity >= 1 and every outcome of the text call, an empty
\* parsed sequence included, TextGenerator.generateVariations returns a
\* non-empty sequence.
C1_AcquisitionNeverEmpty ==
    (Acquired /\ quantity >= 1) => Len(textVariations) >= 1

\* C2: a failed render never aborts the batch; every later cell is still
\* attempted and the result is exactly the successful cells, in iteration
\* order (i ascending, formats in their fixed order within each i).
C2_FailedCellsAreSkipped ==
    IsBatch =>
        /\ thrown # "render"
        /\ LET rendered == Successes
           IN  /\ Len(flyers) = Len(rendered)
               /\ \A k \in 1..Len(flyers) :
                     /\ flyers[k].filename = rendered[k].filename
                     /\ flyers[k].format = rendered[k].format
        /\ \A k \in 1..Len(attempted) :
              /\ attempted[k].i = (k - 1) \div NumFormats
              /\ attempted[k].format = FormatsOf(entry)[((k - 1) % NumFormats) + 1]
        /\ pc = "render" => Len(attempted) = i * NumFormats + (f - 1)
        /\ pc = "returned" => Len(attempted) = quantity * NumFormats

C2_Witness ==
    /\ IsBatch
    /\ pc = "returned"
    /\ \E k \in 1..(Len(attempted) - 1) : ~attempted[k].ok /\ attempted[k + 1].ok

\* C3 as stated: a batch call throws only when no text variations could be
\* produced at all; no other failure, output-directory creation included,
\* makes it throw.
C3_ThrowsOnlyWithoutText ==
    (IsBatch /\ pc = "thrown") =>
        (thrown = "notext" /\ aiCalls = 1 /\ Len(textVariations) = 0)

\* C3 amended: a batch call ends in exactly one of two ways, a returned
\* (possibly partial) sequence or one fatal error; it throws only when the
\* acquired sequence is empty or when creating the output directory fails
\* with an error other than "already exists"; a failed render and a recovered
\* acquisition failure never make it throw.
C3_ThrowsOnlyWithoutTextOrDirectory ==
    IsBatch =>
        /\ pc = "thrown" =>
              /\ \/ thrown = "notext" /\ aiCalls = 1 /\ Len(textVariations) = 0
                 \/ /\ thrown = "mkdir"
                    /\ dirOutcome \notin {"none", "ok", "EEXIST"}
                    /\ aiCalls = 0
              /\ attempted = <<>>
              /\ flyers = <<>>
        /\ pc = "returned" => thrown = "none"
        /\ thrown # "none" => pc = "thrown"

C3_Witness ==
    /\ IsBatch
    /\ pc = "thrown"
    /\ thrown = "mkdir"
    /\ dirOutcome = "EACCES"

C5_FilenamesAreUnique ==
    \A a, b \in 1..Len(attempted) :
        a # b => attempted[a].filename # attempted[b].filename

C5_Witness ==
    /\ IsBatch
    /\ \E a, b \in 1..Len(attempted) :
          /\ attempted[a].filename = "flyer_1_2_generic_facebook.png"
          /\ attempted[b].filename = "flyer_2_generic_facebook.png"
          /\ attempted[b].variation.tone = JNull

\* C6: a batch attempts exactly one cell for each pair (i, format) with i in
\* 0..quantity-1, however many variations were acquired; the result has at
\* most quantity x |formats| entries and exactly that many when every render
\* succeeds (quantity x 3 for generateForAllFormats).
C6_OneCellPerPair ==
    IsBatch =>
        /\ \A k \in 1..Len(attempted) :
              /\ attempted[k].i \in 0..(quantity - 1)
              /\ \E n \in 1..NumFormats : attempted[k].format = FormatsOf(entry)[n]
        /\ \A idx \in 0..(quantity - 1) : \A n \in 1..NumFormats :
              LET hits == {k \in 1..Len(attempted) :
                              /\ attempted[k].i = idx
                              /\ attempted[k].format = FormatsOf(entry)[n]}
              IN  /\ Cardinality(hits) <= 1
                  /\ pc = "returned" => Cardinality(hits) = 1
        /\ Len(flyers) <= quantity * NumFormats
        /\ (pc = "returned" /\ \A k \in 1..Len(attempted) : attempted[k].ok)
              => Len(flyers) = quantity * NumFormats
        /\ (pc = "returned" /\ entry = "generateForAllFormats"
              /\ \A k \in 1..Len(attempted) : attempted[k].ok)
              => Len(flyers) = quantity * 3

C6_Witness ==
    /\ entry = "generateForAllFormats"
    /\ pc = "returned"
    /\ Len(textVariations) < quantity
    /\ Len(flyers) = quantity * 3

\* C7: a failed call, missing content, content that is not JSON and JSON
\* that is not a sequence are all treated alike: nothing is raised and the
\* Fallback Bank result for (brief, quantity, language) is returned.
C7_FailuresFallBack ==
    (Acquired /\ AcquisitionFailed(response)) =>
        /\ thrown = "none"
        /\ textVariations = generateFallbackVariations(config, quantity, language)

C7_Witness ==
    /\ Acquired
    /\ response.kind = "content"
    /\ response.json.t = "object"
    /\ quantity >= 1
    /\ Len(textVariations) = quantity
    /\ textVariations[1].tone = JStr("urgent")

\* C8: each batch sends exactly one request to the text source: acquisition
\* is called once, never retried, and has completed before the first cell
\* is rendered.  (A call stopped by a directory error has sent none;
\* generateSingleFlyer is no batch, its text is an argument.)
C8_OneRequestPerBatch ==
    entry # "generateSingleFlyer" =>
        /\ aiCalls <= 1
        /\ pc = "awaitAI" => aiCalls = 1 /\ attempted = <<>>
        /\ (pc \in {"acquired", "render", "returned"} \/ thrown = "notext")
              => aiCalls = 1
        /\ attempted # <<>> => aiCalls = 1 /\ pc \in {"render", "returned"}

C8_Witness ==
    /\ IsBatch
    /\ pc = "returned"
    /\ aiCalls = 1
    /\ Len(attempted) >= 2
    /\ textVariations = generateFallbackVariations(config, quantity, language)

\* C9: when acquisition returns an empty sequence the batch is aborted with
\* a fatal error before any cell: nothing is composed or rasterized and no
\* flyer file is written.
C9_EmptyAcquisitionAborts ==
    IsBatch =>
        /\ (pc \in {"render", "returned"} \/ attempted # <<>>)
              => Len(textVariations) > 0
        /\ thrown = "notext" =>
              /\ pc = "thrown"
              /\ Len(textVariations) = 0
              /\ attempted = <<>>
              /\ files = {}
              /\ flyers = <<>>

C9_Witness ==
    /\ IsBatch
    /\ quantity >= 1
    /\ pc = "thrown"
    /\ thrown = "notext"
    /\ attempted = <<>>

\* C10: for every brief (long or empty fields included), language and
\* quantity >= 1, every variation of the Fallback Bank has its five fields
\* non-empty, with title <= 50, subtitle <= 80, callToAction <= 30 and
\* description <= 200 characters.
C10_FallbackFieldsWithinLimits ==
    (Acquired /\ AcquisitionFailed(response) /\ quantity >= 1) =>
        /\ Len(textVariations) >= 1
        /\ \A k \in 1..Len(textVariations) :
              LET v == textVariations[k]
              IN  /\ \A name \in FieldNames : v[name].t = "string" /\ v[name].s # ""
                  /\ Len(v.title.s) <= 50
                  /\ Len(v.subtitle.s) <= 80
                  /\ Len(v.callToAction.s) <= 30
                  /\ Len(v.description.s) <= 200

C10_Witness ==
    /\ Acquired
    /\ AcquisitionFailed(response)
    /\ quantity >= 8
    /\ config.product = LongText
    /\ config.validity = ""
    /\ \E k \in 1..Len(textVariations) : Len(textVariations[k].title.s) = 50
    /\ \E k \in 1..Len(textVariations) : Len(textVariations[k].description.s) = 200

\* C11: the Fallback Bank called with quantity q >= 1 returns exactly q
\* variations, the i-th (0-based) with tone tones[i mod 8] of the order
\* urgent, elegant, casual, fun, exclusive, friendly, informative,
\* inspiring; a language without a template table gets the English table.
C11_FallbackCyclesTones ==
    (Acquired /\ AcquisitionFailed(response) /\ quantity >= 1) =>
        LET order == <<"urgent", "elegant", "casual", "fun", "exclusive",
                       "friendly", "informative", "inspiring">>
        IN  /\ Len(textVariations) = quantity
            /\ \A k \in 1..Len(textVariations) :
                  textVariations[k].tone = JStr(order[((k - 1) % 8) + 1])
            /\ language \notin {"English", "Spanish"} =>
                  /\ textVariations[1].callToAction = JStr("Book Now!")
                  /\ textVariations[1].subtitle.s
                        = SubSeq(config.validity \o ". Act fast!", 1,
                                 Min(80, Len(config.validity) + 11))
                  /\ quantity >= 2 =>
                        textVariations[2].subtitle
                            = JStr("Superior quality and unmatched design await you.")
            /\ language = "Spanish" =>
                  textVariations[1].callToAction = JStr("¡Reserva Ya!")

C11_Witness ==
    /\ Acquired
    /\ AcquisitionFailed(response)
    /\ language = "French"
    /\ quantity = 9
    /\ Len(textVariations) = 9
    /\ textVariations[9].tone = JStr("urgent")
    /\ textVariations[8].tone = JStr("inspiring")

\* A colour of the form #RRGGBB: a '#' and six hexadecimal digits.
WellFormedColor(c) ==
    /\ Len(c) = 7
    /\ SubSeq(c, 1, 1) = "#"
    /\ \A k \in 2..7 : HexValue(SubSeq(c, k, k)) # NaN

ColorReturned == entry \in ColorEntries /\ pc = "returned"

\* C14: for any malformed colour (missing '#', '#FFF', '#GGGGGG', a colour
\* name) Contrast, Darken and Accent raise no error and yield a documented
\* fallback colour: the derived colour is always a well-formed #RRGGBB.
C14_MalformedColorsFallBack ==
    (ColorReturned /\ args.color \in MalformedColors) =>
        /\ WellFormedColor(result.s)
        /\ entry = "getAccentColor" => result.s = "#FFD700"

\* C15: for every valid colour Contrast returns exactly #000000 or #FFFFFF,
\* black if and only if 299 R + 587 G + 114 B > 127500.
C15_ContrastThreshold ==
    (ColorReturned /\ entry = "getContrastColor" /\ args.color \in ValidColors) =>
        LET c == Channels(args.color)
        IN  /\ result.s \in {"#000000", "#FFFFFF"}
            /\ result.s = "#000000"
                  <=> 299 * c[1] + 587 * c[2] + 114 * c[3] > 127500

\* C16: for every valid colour c, in upper-case or lower-case digits, Darken(c, 0) is c and Darken(c, 1) is black; each output channel
\* is floor(channel * (1 - factor)) for every factor in [0, 1], within
\* [0, channel].
C16_DarkenEndpoints ==
    (ColorReturned /\ entry = "darkenColor" /\ args.color \in ValidColors) =>
        LET c == Channels(args.color)
            d == Channels(result.s)
        IN  /\ args.factor = 0 => result.s = args.color
            /\ args.factor = 10 => result.s = "#000000"
            /\ \A k \in 1..3 :
                  /\ d[k] = (c[k] * (10 - args.factor)) \div 10
                  /\ d[k] \in 0..c[k]

\* The FlyerGenerator entry points that render.
RenderingEntries == BatchEntries \cup {SingleEntry, CustomEntry}

\* C19: in generateVariations, generateForAllFormats and generateSingleFlyer
\* (and in generateCustomVariations, which delegates) the directory creation has completed before any render; "already exists"
\* is tolerated and the call proceeds; any other directory error stops the
\* call before the acquisition and before any render.
C19_DirectoryBeforeRender ==
    entry \in RenderingEntries =>
        /\ (attempted # <<>> \/ aiCalls > 0 \/ pc \in {"render", "renderSingle"})
              => dirOutcome \in {"ok", "EEXIST"}
        /\ dirOutcome = "EEXIST" => thrown # "mkdir"
        /\ (dirOutcome = "EEXIST" /\ attempted = <<>> /\ aiCalls = 0)
              => pc = AfterDirectory(entry)
        /\ pc = "custom" => dirOutcome = "none"
        /\ dirOutcome \notin {"none", "ok", "EEXIST"} =>
              /\ pc = "thrown"
              /\ thrown = "mkdir"
              /\ aiCalls = 0
              /\ attempted = <<>>
              /\ flyers = <<>>

C19_Witness ==
    /\ entry = SingleEntry
    /\ dirOutcome = "EEXIST"
    /\ pc = "returned"
    /\ Len(attempted) = 1
    /\ attempted[1].ok

\* C20: generateCustomVariations(product, offer, colors, quantity) behaves
\* exactly as generateVariations on the brief made of the given product,
\* offer and colors plus the fixed placeholder business fields: the same
\* quantity, one acquisition from that brief, facebook cells cycling the
\* given colours, the same filenames and the same result.
C20_CustomIsGenerateVariations ==
    (entry = CustomEntry /\ pc # "custom") =>
        LET colors == IF args.colors = Undefined
                      THEN <<"#3498DB", "#E74C3C", "#2ECC71">>
                      ELSE args.colors
            brief == Brief(args.product, args.offer, "Limited time offer",
                           "Visit our store!", colors)
        IN  /\ config = brief
            /\ quantity = args.quantity
            /\ language = "English"
            /\ FormatsOf(entry) = FormatsOf("generateVariations")
            /\ pc = "acquired" =>
                  textVariations
                      = generateVariations(brief, args.quantity, "English", response)
            /\ \A k \in 1..Len(attempted) :
                  /\ attempted[k].i = k - 1
                  /\ attempted[k].format = "facebook"
                  /\ attempted[k].color = colors[((k - 1) % Len(colors)) + 1]
                  /\ attempted[k].variation
                        = textVariations[((k - 1) % Len(textVariations)) + 1]
                  /\ attempted[k].filename
                        = Filename(k - 1, attempted[k].variation, "facebook")
            /\ pc = "returned" =>
                  /\ Len(attempted) = args.quantity
                  /\ Len(flyers) = Len(Successes)
                  /\ \A k \in 1..Len(flyers) :
                        flyers[k].filename = Successes[k].filename
            /\ pc = "thrown" =>
                  \/ thrown = "mkdir" /\ dirOutcome = "EACCES"
                  \/ thrown = "notext" /\ textVariations = <<>>

C20_Witness ==
    /\ entry = CustomEntry
    /\ pc = "returned"
    /\ args.colors = Undefined
    /\ args.quantity = 4
    /\ Len(flyers) = 4
    /\ flyers[4].color = "#3498DB"
    /\ flyers[3].color = "#2ECC71"

\* The call came from the command line.
FromCli == "format" \in DOMAIN args /\ pc # "cli"

\* The formats the chosen --format stands for.
ChosenFormats ==
    IF args.format = "facebook" THEN {"facebook"}
    ELSE IF args.format = "instagram" THEN {"instagram"}
    ELSE IF args.format \in {"stories", "story"} THEN {"story"}
    ELSE {"facebook", "instagram", "story"}

\* C17: the output format chosen on the command line or in the interactive
\* prompt determines the format of every generated flyer: Instagram only
\* gives instagram flyers, Stories only story flyers, Facebook only facebook
\* flyers, All formats all three.
C17_ChoiceDeterminesFormat ==
    FromCli =>
        /\ \A k \in 1..Len(attempted) : attempted[k].format \in ChosenFormats
        /\ \A k \in 1..Len(flyers) : flyers[k].format \in ChosenFormats
        /\ (pc = "returned" /\ attempted # <<>>) =>
              { attempted[k].format : k \in 1..Len(attempted) } = ChosenFormats

\* C18: the language chosen by the caller is the language the batch's
\* variations are acquired with: a Spanish request uses the Spanish template
\* and the Spanish fallback table, and only a language without a template
\* falls back to English.
C18_ChosenLanguageAcquires ==
    FromCli =>
        /\ aiCalls > 0 => language = args.language
        /\ (Acquired /\ AcquisitionFailed(response)) =>
              textVariations
                  = generateFallbackVariations(config, quantity,
                        IF args.language = "Spanish" THEN "Spanish" ELSE "English")

\* The text holds none of < > " ' and every ampersand in it starts one of
\* the five entities.
IsEscaped(s) ==
    \A k \in 1..Len(s) :
        LET c == SubSeq(s, k, k)
        IN  /\ c \notin {"<", ">", "\"", "'"}
            /\ c = "&" =>
                  \E ent \in {"&amp;", "&lt;", "&gt;", "&quot;", "&#39;"} :
                      SubSeq(s, k, Min(Len(s), k + Len(ent) - 1)) = ent

\* C12: in every markup of a markup-based path, the SVG of createSVG and the
\* HTML of generateFlyerHTML, every embedded literal text has the five
\* characters & < > " ' escaped.
C12_MarkupTextIsEscaped ==
    (entry \in MarkupEntries /\ pc = "returned") =>
        \A k \in 1..Len(result.texts) : IsEscaped(result.texts[k])

\* C13: the browser of BrowserFlyerGenerator is acquired lazily and is
\* closed on every exit path of generateBrowserFlyer and of
\* testMultipleFormats, the paths on which generateFlyer or
\* generateMultipleFlyers throws included: no launched browser is left
\* running when the flow ends.
C13_BrowserClosedOnEveryExit ==
    entry \in BrowserEntries =>
        /\ aiCalls = 0 => browser.launches = 0
        /\ pc \in {"returned", "thrown"} =>
              /\ ~browser.open
              /\ browser.closes = browser.launches

-----------------------------------------------------------------------------
(* The accent colour, parsing, quantity, wrapping. *)

\* C26: for every valid #RRGGBB colour Accent returns #00BFFF when R = G = B
\* (#010101 and #fefefe included) and otherwise the colour whose channels are
\* (255 - channel + 100) mod 256, which the clamp leaves as they are; for an
\* input without a leading '#' or of a length other than 7 it returns #FFD700.
C26_AccentInvertsOrFallsBack ==
    (ColorReturned /\ entry = "getAccentColor") =>
        IF args.color \in ValidColors
        THEN LET c == Channels(args.color)
             IN  IF c[1] = c[2] /\ c[2] = c[3]
                 THEN result.s = "#00BFFF"
                 ELSE /\ WellFormedColor(result.s)
                      /\ Channels(result.s) =
                            <<(255 - c[1] + 100) % 256, (255 - c[2] + 100) % 256,
                              (255 - c[3] + 100) % 256>>
        ELSE (\/ Len(args.color) # 7
              \/ SubSeq(args.color, 1, 1) # "#") => result.s = "#FFD700"

C26_Witness ==
    /\ ColorReturned
    /\ entry = "getAccentColor"
    /\ args.color = "#3498DB"
    /\ result.s = "#2fcb88"

\* C27: response parsing keeps, in order and unmodified, exactly the elements
\* of the parsed sequence that are objects with the five fields title,
\* subtitle, callToAction, description and tone, and discards the others; so
\* every variation that acquisition returns has all five fields as strings.
C27_ParsedVariationsHaveStringFields ==
    (Acquired /\ response.kind = "content" /\ response.json.t = "array") =>
        /\ textVariations =
              AsVariations(SelectSeq(response.json.a, IsCompleteVariation))
        /\ \A k \in 1..Len(textVariations) :
              \A field \in FieldNames : textVariations[k][field].t = "string"

-----------------------------------------------------------------------------
(* The quantity: main (command line) and promptUser (interactive flow)      *)
(* turn the string they were given into the quantity of the generator.      *)

Max(a, b) == IF a >= b THEN a ELSE b

\* What parseInt returns: NaN, or an integer.
NotANumber == [nan |-> TRUE, n |-> 0]

\* String.prototype.trimStart, as parseInt applies it to its argument.
RECURSIVE TrimStart(_)
TrimStart(s) ==
    IF Len(s) > 0 /\ SubSeq(s, 1, 1) = " "
    THEN TrimStart(SubSeq(s, 2, Len(s)))
    ELSE s

\* The value of a digit of the radix, NaN for any other character.
DigitOf(c, radix) ==
    LET v == HexValue(c)
    IN  IF v # NaN /\ v < radix THEN v ELSE NaN

\* The longest prefix of digits of the radix, read as a number.
RECURSIVE DigitsValue(_, _, _, _)
DigitsValue(s, radix, acc, seen) ==
    IF Len(s) = 0 \/ DigitOf(SubSeq(s, 1, Min(1, Len(s))), radix) = NaN
    THEN IF seen THEN [nan |-> FALSE, n |-> acc] ELSE NotANumber
    ELSE DigitsValue(SubSeq(s, 2, Len(s)), radix,
                     acc * radix + DigitOf(SubSeq(s, 1, 1), radix), TRUE)

\* parseInt(string) without a radix: leading white space, a sign, an
\* optional 0x prefix, then the digits up to the first other character.
parseInt(s) ==
    LET t == TrimStart(s)
        signed == Len(t) > 0 /\ SubSeq(t, 1, 1) \in {"-", "+"}
        negative == signed /\ SubSeq(t, 1, 1) = "-"
        u == IF signed THEN SubSeq(t, 2, Len(t)) ELSE t
        hex == Len(u) >= 2 /\ SubSeq(u, 1, 2) \in {"0x", "0X"}
        z == IF hex THEN SubSeq(u, 3, Len(u)) ELSE u
        p == DigitsValue(z, IF hex THEN 16 ELSE 10, 0, FALSE)
    IN  IF p.nan THEN p
        ELSE [nan |-> FALSE, n |-> IF negative THEN 0 - p.n ELSE p.n]

\* parseInt(quantity) || 3: NaN and 0 are falsy.
QuantityOrDefault(p) == IF p.nan \/ p.n = 0 THEN 3 ELSE p.n

\* The clamp without its lower end.
ClampQuantity_NoFloor(n) == Min(n, 10)

\* Math.min(Math.max(n, 1), 10)
ClampQuantity(n) == Min(Max(n, 1), 10)

\* quantityNum < 1 || quantityNum > 10: the condition of the warning
\* "Quantity adjusted to 3 (valid range: 1-10)".
WarnsAdjusted(quantityNum) == quantityNum < 1 \/ quantityNum > 10

QuantityEntries == {"main", "promptUser"}

\* Strings typed at the prompt or given to --quantity.
QuantityInputs ==
    { s \o d \o x :
        s \in {"", "-", "+", " "},
        d \in {"", "0", "1", "3", "7", "10", "11", "15", "99", "0x5", "0x1F"},
        x \in {"", "abc", ".9"} }

InitQuantity ==
    /\ entry \in QuantityEntries
    /\ args \in { [quantity |-> s] : s \in QuantityInputs }
    /\ config = NoConfig
    /\ quantity = 0
    /\ language = "English"
    /\ pc = "start"
    /\ NothingDone

\* main, line 228, and promptUser, lines 247 to 272.
ParseQuantity ==
    /\ pc = "start"
    /\ entry \in QuantityEntries
    /\ LET quantityNum == QuantityOrDefault(parseInt(args.quantity))
       IN  /\ quantity' = ClampQuantity(quantityNum)
           /\ result' = [t |-> "quantity",
                         quantityNum |-> quantityNum,
                         warned |-> entry = "promptUser"
                                        /\ WarnsAdjusted(quantityNum)]
    /\ pc' = "returned"
    /\ UNCHANGED <<entry, config, language, dirOutcome, aiCalls, response,
                   textVariations, i, f, flyers, attempted, files, thrown,
                   args, browser, procs, now>>

NextQuantity == ParseQuantity

SpecQuantity == InitQuantity /\ [][NextQuantity]_vars

\* C22: the quantity handed to the generator by the command line and by the
\* interactive flow is an integer in 1..10 for every input string
\* (non-numeric, empty, zero, negative, above 10).
C22_QuantityWithinOneAndTen ==
    (entry \in QuantityEntries /\ pc = "returned") => quantity \in 1..10

C22_Witness ==
    /\ entry \in QuantityEntries
    /\ pc = "returned"
    /\ args.quantity = "-15"
    /\ quantity = 1

\* C28: in the interactive flow, when the entered quantity parses to a
\* number outside 1..10, the quantity used for generation is 3, as the
\* warning shown to the user states.
C28_OutOfRangeBecomesThree ==
    (/\ entry = "promptUser"
     /\ pc = "returned"
     /\ ~parseInt(args.quantity).nan
     /\ parseInt(args.quantity).n \notin 1..10) => quantity = 3

-----------------------------------------------------------------------------
(* ImageGenerator.createMultilineText called on its own: the lines it       *)
(* emits and where it puts them.                                            *)

\* Math.floor(maxWidth / (fontSize * 0.6)); for the font sizes 10 and 20
\* the product fontSize * 0.6 is the double 6 or 12 and the quotient is
\* floored as the exact one is.
CharsPerLineOf(maxWidth, fontSize) == (10 * maxWidth) \div (6 * fontSize)

\* The line position without the line height.
LineY_Stacked(y, index, fontSize) == y

\* y + index * fontSize * 1.2; a whole number for the font sizes 10 and 20.
LineY(y, index, fontSize) == y + (index * fontSize * 12) \div 10

\* createMultilineText(text, x, y, fontSize, color, maxWidth): one text
\* element per line, with its y attribute and its escaped content.
MultilineElements(text, y, fontSize, maxWidth) ==
    LET lines == WrapWords(SplitOnSpace(text), <<>>, "",
                           CharsPerLineOf(maxWidth, fontSize))
    IN  [k \in 1..Len(lines) |->
            [y |-> LineY(y, k - 1, fontSize), text |-> escapeXML(lines[k])]]

WrapEntry == "createMultilineText"

\* Descriptions: short and long words, repeated, leading and trailing spaces.
WrapTexts ==
    { "", "ab", "abc de", "a b c", "abcdefgh", "ab  cd", " ab", "ab ",
      "a bcdefgh i", "abc de fg", "ab cd ef gh", "abcdef gh", "abcdefgh ij kl",
      "a   b", "ab abcdefgh", "abcde abcdefgh fg" }

WrapArgs ==
    { [text |-> t, y |-> 100, fontSize |-> s, maxWidth |-> w] :
        t \in WrapTexts, s \in {10, 20}, w \in {6, 18, 30, 36, 47} }

InitWrap ==
    /\ entry = WrapEntry
    /\ args \in WrapArgs
    /\ config = NoConfig
    /\ quantity = 0
    /\ language = "English"
    /\ pc = "start"
    /\ NothingDone

CreateMultilineText ==
    /\ pc = "start"
    /\ entry = WrapEntry
    /\ result' = [t |-> "elements",
                  elements |-> MultilineElements(args.text, args.y,
                                                 args.fontSize, args.maxWidth)]
    /\ pc' = "returned"
    /\ UNCHANGED <<entry, config, quantity, language, dirOutcome, aiCalls,
                   response, textVariations, i, f, flyers, attempted, files,
                   thrown, args, browser, procs, now>>

NextWrap == CreateMultilineText

SpecWrap == InitWrap /\ [][NextWrap]_vars

Wrapped == entry = WrapEntry /\ pc = "returned"

IsWord(w) == w # ""

\* The non-empty words of a string.
WordsOf(s) == SelectSeq(SplitOnSpace(s), IsWord)

\* The words of the emitted lines from line k on, read line by line.
RECURSIVE WordsFrom(_, _)
WordsFrom(elements, k) ==
    IF k > Len(elements) THEN <<>>
    ELSE WordsOf(elements[k].text) \o WordsFrom(elements, k + 1)

\* C24: for every description and every charsPerLine >= 1, no line emitted
\* by the greedy word-wrap has more than charsPerLine characters, spaces
\* between words included, except a line that is a single word longer than
\* charsPerLine.
C24_LinesFitCharsPerLine ==
    (Wrapped /\ CharsPerLineOf(args.maxWidth, args.fontSize) >= 1) =>
        \A k \in 1..Len(result.elements) :
            LET line == result.elements[k].text
            IN  \/ Len(line) <= CharsPerLineOf(args.maxWidth, args.fontSize)
                \/ /\ WordsOf(line) = <<line>>
                   /\ Len(line) > CharsPerLineOf(args.maxWidth, args.fontSize)

\* C25: the word-wrap drops and reorders nothing: the words of the emitted
\* lines, read line by line, are the non-empty words of the description in
\* their order; a word longer than charsPerLine is alone on its line; line k
\* (0-based) is at y + k * fontSize * 1.2.
C25_WrapKeepsEveryWord ==
    Wrapped =>
        /\ WordsFrom(result.elements, 1) = WordsOf(args.text)
        /\ \A k \in 1..Len(result.elements) :
              /\ \A n \in 1..Len(WordsOf(result.elements[k].text)) :
                    LET word == WordsOf(result.elements[k].text)[n]
                    IN  Len(word) > CharsPerLineOf(args.maxWidth, args.fontSize)
                            => result.elements[k].text = word
              /\ 10 * result.elements[k].y
                    = 10 * args.y + (k - 1) * args.fontSize * 12

C25_Witness ==
    /\ Wrapped
    /\ args.text = "abcde abcdefgh fg"
    /\ args.fontSize = 10
    /\ args.maxWidth = 36
    /\ result.elements = << [y |-> 100, text |-> "abcde"],
                            [y |-> 112, text |-> "abcdefgh"],
                            [y |-> 124, text |-> "fg"] >>

-----------------------------------------------------------------------------
(* Several generateSingleFlyer calls on one FlyerGenerator, started one     *)
(* after the other or together, while the clock runs.                       *)

SinglesEntry == "generateSingleFlyer, repeated"

\* Date.now() as the template literal prints it.
DateNow(ms) == "170000000000" \o ToString(ms)

SinglesArgs ==
    { a \in SingleArgs : a.color = "#3498DB" /\ a.format # "instagram" }

InitSingles ==
    /\ entry = SinglesEntry
    /\ config = Brief("Pizza", "50% off", "Valid until Friday", "Main St 1",
                      <<"#FF0000", "#00FF00", "#808080">>)
    /\ quantity = 1
    /\ language = "English"
    /\ pc = "start"
    /\ args = NoArgs
    /\ procs \in [1..MaxSingleCalls ->
                    { [pc |-> "start", args |-> a, filename |-> ""] :
                          a \in SinglesArgs }]
    /\ now = 0
    /\ dirOutcome = "none"
    /\ aiCalls = 0
    /\ response = NoResponse
    /\ textVariations = <<>>
    /\ i = 0
    /\ f = 1
    /\ flyers = <<>>
    /\ attempted = <<>>
    /\ files = {}
    /\ thrown = "none"
    /\ result = NoResult
    /\ browser = NoBrowser

SinglesUnchanged ==
    UNCHANGED <<entry, config, quantity, language, pc, aiCalls, response,
                textVariations, i, f, flyers, thrown, args, result, browser>>

\* The clock advances by a millisecond.
Tick ==
    /\ entry = SinglesEntry
    /\ now < MaxTicks
    /\ now' = now + 1
    /\ UNCHANGED <<procs, dirOutcome, attempted, files>>
    /\ SinglesUnchanged

\* Call p: ensureOutputDirectory has resolved, Date.now() is read and the
\* filename is built (lines 235 to 252).
SinglesName(p) ==
    /\ entry = SinglesEntry
    /\ procs[p].pc = "start"
    /\ \E outcome \in MkdirOutcomes :
        /\ dirOutcome' = outcome
        /\ procs' = [procs EXCEPT ![p] =
              IF EnsureOutputDirectoryThrows(outcome)
              THEN [@ EXCEPT !.pc = "thrown"]
              ELSE [@ EXCEPT !.pc = "renderSingle",
                             !.filename = SingleFilename(
                                 procs[p].args.textVariation,
                                 procs[p].args.format, DateNow(now))]]
    /\ UNCHANGED <<now, attempted, files>>
    /\ SinglesUnchanged

\* Call p: the render resolves, the file is written, the flyer is returned.
SinglesCompletes(p) ==
    /\ entry = SinglesEntry
    /\ procs[p].pc = "renderSingle"
    /\ procs' = [procs EXCEPT ![p].pc = "returned"]
    /\ files' = files \cup {procs[p].filename}
    /\ attempted' = Append(attempted,
                       [i |-> 0, format |-> procs[p].args.format,
                        filename |-> procs[p].filename,
                        variation |-> procs[p].args.textVariation,
                        color |-> procs[p].args.color, ok |-> TRUE])
    /\ UNCHANGED <<now, dirOutcome>>
    /\ SinglesUnchanged

\* Call p: the render rejects and the error is thrown again.
SinglesRejects(p) ==
    /\ entry = SinglesEntry
    /\ procs[p].pc = "renderSingle"
    /\ procs' = [procs EXCEPT ![p].pc = "thrown"]
    /\ attempted' = Append(attempted,
                       [i |-> 0, format |-> procs[p].args.format,
                        filename |-> procs[p].filename,
                        variation |-> procs[p].args.textVariation,
                        color |-> procs[p].args.color, ok |-> FALSE])
    /\ UNCHANGED <<now, dirOutcome, files>>
    /\ SinglesUnchanged

NextSingles ==
    \/ Tick
    \/ \E p \in 1..MaxSingleCalls : SinglesName(p)
    \/ \E p \in 1..MaxSingleCalls : SinglesCompletes(p)
    \/ \E p \in 1..MaxSingleCalls : SinglesRejects(p)

SpecSingles == InitSingles /\ [][NextSingles]_vars

\* C23: any two generateSingleFlyer calls, two calls with the same tone and
\* format in quick succession included, produce different filenames: none
\* overwrites another.
C23_SingleFilenamesDiffer ==
    entry = SinglesEntry =>
        \A p, q \in 1..MaxSingleCalls :
            (/\ p # q
             /\ procs[p].filename # ""
             /\ procs[q].filename # "") => procs[p].filename # procs[q].filename

-----------------------------------------------------------------------------
(* BrowserFlyerGenerator.generateMultipleFlyers called on its own, on a     *)
(* generator with or without a browser.                                     *)

MultipleEntry == "generateMultipleFlyers"

BrowserVariation(title) ==
    [title |-> title, description |-> "Come in.", cta |-> "Buy"]

MultipleArgs ==
    { [variations |-> v] :
        v \in SeqsUpTo({BrowserVariation("Hot deal"), BrowserVariation("Last call")},
                       MaxBrowserVariations) }

\* !variations || variations.length === 0
NoVariationsProvided(variations) == Len(variations) = 0

\* i < Math.min(quantity, variations.length)
MultipleLoopContinues(idx, q, variations) == idx < Min(q, Len(variations))

InitMultiple ==
    /\ entry = MultipleEntry
    /\ config = PreferencesOf("generateBrowserFlyer")
    /\ args \in MultipleArgs
    /\ quantity \in 0..MaxBrowserQuantity
    /\ language = "English"
    /\ pc = "m_start"
    /\ browser \in {NoBrowser, Initialized(NoBrowser)}
    /\ procs = <<>>
    /\ now = 0
    /\ dirOutcome = "none"
    /\ aiCalls = 0
    /\ response = NoResponse
    /\ textVariations = <<>>
    /\ i = 0
    /\ f = 1
    /\ flyers = <<>>
    /\ attempted = <<>>
    /\ files = {}
    /\ thrown = "none"
    /\ result = NoResult

MultipleUnchanged ==
    UNCHANGED <<entry, config, quantity, language, dirOutcome, aiCalls,
                response, textVariations, f, args, procs, now>>

\* The check of the variations array and the first test of the loop.
MultipleStart ==
    /\ entry = MultipleEntry
    /\ pc = "m_start"
    /\ IF NoVariationsProvided(args.variations)
       THEN pc' = "thrown" /\ thrown' = "novariations" /\ result' = result
       ELSE IF MultipleLoopContinues(i, quantity, args.variations)
       THEN pc' = "m_cell" /\ thrown' = thrown /\ result' = result
       ELSE /\ pc' = "returned"
            /\ thrown' = thrown
            /\ result' = [t |-> "paths", paths |-> flyers]
    /\ UNCHANGED <<i, flyers, attempted, files, browser>>
    /\ MultipleUnchanged

\* What the loop hands to generateFlyer for flyer i.  variations[i] is an
\* object for every i below variations.length, so the loop never takes its
\* `continue`.
MultipleAttempt(timestamp, ok) ==
    [i |-> i, format |-> "square",
     filename |-> MultipleFlyerPath(config.product, i, timestamp),
     variation |-> args.variations[i + 1], ok |-> ok]

\* await this.generateFlyer(...) resolves: results.push(result), i++ and the
\* test of the loop; after the last flyer, return results.
MultipleFlyerCompletes ==
    /\ entry = MultipleEntry
    /\ pc = "m_cell"
    /\ browser' = Initialized(browser)
    /\ \E timestamp \in IsoTimestamps :
        LET a == MultipleAttempt(timestamp, TRUE)
        IN  /\ attempted' = Append(attempted, a)
            /\ files' = files \cup {a.filename}
            /\ flyers' = Append(flyers, a.filename)
            /\ IF MultipleLoopContinues(i + 1, quantity, args.variations)
               THEN pc' = "m_cell" /\ result' = result
               ELSE /\ pc' = "returned"
                    /\ result' = [t |-> "paths",
                                  paths |-> Append(flyers, a.filename)]
    /\ i' = i + 1
    /\ thrown' = thrown
    /\ MultipleUnchanged

\* await this.generateFlyer(...) rejects, because puppeteer.launch does or
\* because the page does: nothing catches it in generateMultipleFlyers.
MultipleFlyerRejects ==
    /\ entry = MultipleEntry
    /\ pc = "m_cell"
    /\ \E timestamp \in IsoTimestamps :
        attempted' = Append(attempted, MultipleAttempt(timestamp, FALSE))
    /\ \E failure \in {"launch", "render"} :
        /\ failure = "launch" => ~browser.open
        /\ thrown' = failure
        /\ browser' = IF failure = "launch" THEN browser
                      ELSE Initialized(browser)
    /\ pc' = "thrown"
    /\ UNCHANGED <<i, flyers, files, result>>
    /\ MultipleUnchanged

NextMultiple ==
    \/ MultipleStart
    \/ MultipleFlyerCompletes
    \/ MultipleFlyerRejects

SpecMultiple == InitMultiple /\ [][NextMultiple]_vars

\* C30: generateMultipleFlyers either returns exactly
\* min(quantity, |variations|) paths, flyer k rendered from variations[k]
\* without cycling and with pairwise distinct filenames, or it throws at the
\* first failing flyer (at once when variations is empty); then no later
\* flyer is attempted and the paths already written are not returned.
C30_MultipleIsAllOrNothing ==
    entry = MultipleEntry =>
        /\ \A k \in 1..Len(attempted) :
              /\ attempted[k].i = k - 1
              /\ k <= Len(args.variations)
              /\ attempted[k].variation = args.variations[k]
              /\ k < Len(attempted) => attempted[k].ok
        /\ \A k, n \in 1..Len(attempted) :
              k # n => attempted[k].filename # attempted[n].filename
        /\ pc = "returned" =>
              /\ thrown = "none"
              /\ result.t = "paths"
              /\ Len(result.paths) = Min(quantity, Len(args.variations))
              /\ Len(attempted) = Len(result.paths)
              /\ \A k \in 1..Len(attempted) :
                    attempted[k].ok /\ result.paths[k] = attempted[k].filename
        /\ pc = "thrown" =>
              /\ result = NoResult
              /\ IF Len(args.variations) = 0
                 THEN thrown = "novariations" /\ attempted = <<>>
                 ELSE /\ thrown \in {"launch", "render"}
                      /\ Len(attempted) >= 1
                      /\ ~attempted[Len(attempted)].ok
        /\ Len(args.variations) = 0 => pc \in {"m_start", "thrown"}

C30_Witness ==
    /\ entry = MultipleEntry
    /\ pc = "thrown"
    /\ thrown = "render"
    /\ quantity = 3
    /\ Len(args.variations) = 3
    /\ Len(attempted) = 2
    /\ Cardinality(files) = 1

-----------------------------------------------------------------------------
(* One BrowserFlyerGenerator with several initialize and generateFlyer      *)
(* calls in flight: each call runs to its next await, then any call whose   *)
(* awaited promise has settled resumes.  close() is called once every call  *)
(* has ended.                                                               *)

ConcurrentEntry == "BrowserFlyerGenerator, concurrent calls"

ConcurrentCalls == {"initialize", "generateFlyer"}

\* this.browser = await puppeteer.launch(...), the assignment after the
\* await: the field takes the new browser, whatever it held.
Assigned(b) == [open |-> TRUE, launches |-> b.launches + 1, closes |-> b.closes]

InitConcurrent ==
    /\ entry = ConcurrentEntry
    /\ config = PreferencesOf("generateBrowserFlyer")
    /\ args = NoArgs
    /\ quantity = 1
    /\ language = "English"
    /\ pc = "calls"
    /\ browser \in {NoBrowser, Initialized(NoBrowser)}
    /\ procs \in [1..MaxConcurrentCalls ->
                    { [call |-> c, pc |-> "start", page |-> "none",
                       ok |-> TRUE] : c \in ConcurrentCalls }]
    /\ now = 0
    /\ dirOutcome = "none"
    /\ aiCalls = 0
    /\ response = NoResponse
    /\ textVariations = <<>>
    /\ i = 0
    /\ f = 1
    /\ flyers = <<>>
    /\ attempted = <<>>
    /\ files = {}
    /\ thrown = "none"
    /\ result = NoResult

ConcurrentUnchanged ==
    UNCHANGED <<entry, config, quantity, language, dirOutcome, aiCalls,
                response, textVariations, i, f, flyers, attempted, files,
                thrown, args, result, now>>

\* Call p starts and runs to its first await: generateFlyer tests
\* !this.browser and calls initialize, which tests it again and awaits
\* puppeteer.launch; with a browser, generateFlyer awaits newPage and
\* initialize returns.
CallStarts(p) ==
    /\ entry = ConcurrentEntry
    /\ pc = "calls"
    /\ procs[p].pc = "start"
    /\ procs' = [procs EXCEPT ![p].pc =
                    IF ~browser.open THEN "launching"
                    ELSE IF procs[p].call = "generateFlyer" THEN "newPage"
                    ELSE "returned"]
    /\ UNCHANGED <<pc, browser>>
    /\ ConcurrentUnchanged

\* puppeteer.launch resolves for call p: the browser is assigned to
\* this.browser and initialize returns.
LaunchResolves(p) ==
    /\ entry = ConcurrentEntry
    /\ procs[p].pc = "launching"
    /\ browser' = Assigned(browser)
    /\ procs' = [procs EXCEPT ![p].pc =
                    IF procs[p].call = "generateFlyer" THEN "newPage"
                    ELSE "returned"]
    /\ pc' = pc
    /\ ConcurrentUnchanged

\* puppeteer.launch rejects for call p.
LaunchRejects(p) ==
    /\ entry = ConcurrentEntry
    /\ procs[p].pc = "launching"
    /\ procs' = [procs EXCEPT ![p].pc = "thrown", ![p].ok = FALSE]
    /\ UNCHANGED <<pc, browser>>
    /\ ConcurrentUnchanged

\* this.browser.newPage() resolves for call p.
PageOpens(p) ==
    /\ entry = ConcurrentEntry
    /\ procs[p].pc = "newPage"
    /\ procs' = [procs EXCEPT ![p].pc = "rendering", ![p].page = "open"]
    /\ UNCHANGED <<pc, browser>>
    /\ ConcurrentUnchanged

\* The try block of generateFlyer ends for call p, by its return or by an
\* error; the finally block awaits page.close().
RenderSettles(p) ==
    /\ entry = ConcurrentEntry
    /\ procs[p].pc = "rendering"
    /\ \E ok \in BOOLEAN :
        procs' = [procs EXCEPT ![p].pc = "closingPage", ![p].ok = ok]
    /\ UNCHANGED <<pc, browser>>
    /\ ConcurrentUnchanged

\* page.close() resolves for call p and generateFlyer returns or throws.
PageCloses(p) ==
    /\ entry = ConcurrentEntry
    /\ procs[p].pc = "closingPage"
    /\ procs' = [procs EXCEPT ![p].page = "closed",
                              ![p].pc = IF procs[p].ok THEN "returned"
                                        ELSE "thrown"]
    /\ UNCHANGED <<pc, browser>>
    /\ ConcurrentUnchanged

\* close(), once every call has ended.
ConcurrentClose ==
    /\ entry = ConcurrentEntry
    /\ pc = "calls"
    /\ \A p \in 1..MaxConcurrentCalls : procs[p].pc \in {"returned", "thrown"}
    /\ browser' = Closed(browser)
    /\ pc' = "closed"
    /\ UNCHANGED procs
    /\ ConcurrentUnchanged

NextConcurrent ==
    \/ \E p \in 1..MaxConcurrentCalls : CallStarts(p)
    \/ \E p \in 1..MaxConcurrentCalls : LaunchResolves(p)
    \/ \E p \in 1..MaxConcurrentCalls : LaunchRejects(p)
    \/ \E p \in 1..MaxConcurrentCalls : PageOpens(p)
    \/ \E p \in 1..MaxConcurrentCalls : RenderSettles(p)
    \/ \E p \in 1..MaxConcurrentCalls : PageCloses(p)
    \/ ConcurrentClose

SpecConcurrent == InitConcurrent /\ [][NextConcurrent]_vars

\* C29: a BrowserFlyerGenerator never has more than one launched browser
\* between two close() calls: initialize is idempotent and two generateFlyer
\* or initialize calls started together on an instance without a browser do
\* not both launch one, so no launched browser is left unreferenced; every
\* page generateFlyer opened is closed before it returns or throws.
C29_AtMostOneBrowser ==
    entry = ConcurrentEntry =>
        /\ browser.launches - browser.closes = IF browser.open THEN 1 ELSE 0
        /\ \A p \in 1..MaxConcurrentCalls :
              procs[p].pc \in {"returned", "thrown"} => procs[p].page # "open"

-----------------------------------------------------------------------------
(* Two batches in flight at once, on one FlyerGenerator or on two: each     *)
(* runs from one await to the next, and at every await the other may        *)
(* resume.  The locals of a batch (textVariations, flyers, i and the format *)
(* position) are in its entry of procs; the output directory is shared.     *)

PairEntry == "two batches"

\* A slot of locals shared by every invocation.
Owner_Shared(p) == 1

\* The invocation whose locals invocation p reads: its own (const flyers,
\* const textVariations and let i are declared inside the method).
Owner(p) == p

PairBriefs ==
    << Brief("Pizza", "50% off", "Valid until Friday", "Main St 1",
             <<"#FF0000", "#00FF00", "#808080">>),
       Brief("Sushi", "2x1", "Valid until Sunday", "Port Rd 7", <<"#0000FF">>) >>

PairResponses ==
    { [kind |-> "error"],
      [kind |-> "content", json |-> JArr(<<>>)],
      [kind |-> "content", json |-> JArr(<<AiObject(JStr("fun"))>>)] }

NewBatch(e, brief, q) ==
    [entry |-> e, config |-> brief, given |-> brief, quantity |-> q,
     pc |-> "start", response |-> NoResponse, textVariations |-> <<>>,
     i |-> 0, f |-> 1, flyers |-> <<>>, oks |-> <<>>, thrown |-> "none"]

InitPair ==
    /\ entry = PairEntry
    /\ config = NoConfig
    /\ args = NoArgs
    /\ quantity = 0
    /\ language = "English"
    /\ pc = "pair"
    /\ \E e \in BatchEntries, q1, q2 \in 1..MaxPairQuantity :
          procs = << NewBatch("generateVariations", PairBriefs[1], q1),
                     NewBatch(e, PairBriefs[2], q2) >>
    /\ now = 0
    /\ dirOutcome = "none"
    /\ aiCalls = 0
    /\ response = NoResponse
    /\ textVariations = <<>>
    /\ i = 0
    /\ f = 1
    /\ flyers = <<>>
    /\ attempted = <<>>
    /\ files = {}
    /\ thrown = "none"
    /\ result = NoResult
    /\ browser = NoBrowser

PairUnchanged ==
    UNCHANGED <<entry, config, quantity, language, pc, response,
                textVariations, i, f, flyers, attempted, thrown, args, result,
                browser, now>>

\* Batch p: ensureOutputDirectory settles; the batch throws, or calls
\* textGenerator.generateVariations, which sends its request and awaits.
PairEnsureDirectory(p) ==
    /\ entry = PairEntry
    /\ procs[p].pc = "start"
    /\ \E outcome \in MkdirOutcomes :
        /\ dirOutcome' = outcome
        /\ IF EnsureOutputDirectoryThrows(outcome)
           THEN /\ procs' = [procs EXCEPT ![p].pc = "thrown",
                                          ![p].thrown = "mkdir"]
                /\ aiCalls' = aiCalls
           ELSE /\ procs' = [procs EXCEPT ![p].pc = "awaitAI"]
                /\ aiCalls' = aiCalls + 1
    /\ files' = files
    /\ PairUnchanged

\* Batch p: the request settles, generateVariations returns, the batch
\* checks the variations and enters its loop.
PairReceiveText(p) ==
    /\ entry = PairEntry
    /\ procs[p].pc = "awaitAI"
    /\ \E resp \in PairResponses :
        LET me == procs[Owner(p)]
            tv == generateVariations(me.config, me.quantity, "English", resp)
        IN  procs' = [procs EXCEPT
                ![p].response = resp,
                ![p].textVariations = tv,
                ![p].pc = IF NoVariations(tv) THEN "thrown"
                          ELSE IF LoopContinues(0, me.quantity, tv)
                          THEN "render" ELSE "returned",
                ![p].thrown = IF NoVariations(tv) THEN "notext" ELSE "none"]
    /\ UNCHANGED <<dirOutcome, aiCalls, files>>
    /\ PairUnchanged

\* The flyer of the cell batch p is at, built from the locals it reads.
PairCell(p) ==
    LET me == procs[Owner(p)]
        variation == SelectVariation(me.textVariations, me.i)
        format == FormatsOf(procs[p].entry)[me.f]
    IN  [filename |-> Filename(me.i, variation, format),
         textVariation |-> variation,
         color |-> SelectColor(me.config.colors, me.i),
         format |-> format]

\* Batch p: imageGenerator.generateFlyer settles for the current cell; the
\* flyer is pushed if it resolved, and the loop goes on to the next cell.
PairCellSettles(p) ==
    /\ entry = PairEntry
    /\ procs[p].pc = "render"
    /\ \E ok \in BOOLEAN :
        LET me == procs[Owner(p)]
            last == me.f >= Len(FormatsOf(procs[p].entry))
            failures == Cardinality({k \in 1..Len(procs[p].oks) :
                                        ~procs[p].oks[k]})
        IN  /\ ~ok => failures < MaxFailures
            /\ procs' = [procs EXCEPT
                  ![p].oks = Append(@, ok),
                  ![p].flyers = IF ok THEN Append(me.flyers, PairCell(p))
                                ELSE me.flyers,
                  ![p].f = IF last THEN 1 ELSE me.f + 1,
                  ![p].i = IF last THEN me.i + 1 ELSE me.i,
                  ![p].pc = IF last /\ ~LoopContinues(me.i + 1, me.quantity,
                                                      me.textVariations)
                            THEN "returned" ELSE "render"]
            /\ files' = IF ok THEN files \cup {PairCell(p).filename} ELSE files
    /\ UNCHANGED <<dirOutcome, aiCalls>>
    /\ PairUnchanged

NextPair ==
    \/ \E p \in 1..2 : PairEnsureDirectory(p)
    \/ \E p \in 1..2 : PairReceiveText(p)
    \/ \E p \in 1..2 : PairCellSettles(p)

SpecPair == InitPair /\ [][NextPair]_vars

\* The flyers a batch returns when it runs alone, from cell c on: cell c has
\* i = (c - 1) div the number of formats, the formats in their order, and is
\* kept when its render resolved.
RECURSIVE SoloFlyers(_, _, _, _, _)
SoloFlyers(e, brief, tv, oks, c) ==
    IF c > Len(oks) THEN <<>>
    ELSE LET nf == Len(FormatsOf(e))
             idx == (c - 1) \div nf
             format == FormatsOf(e)[((c - 1) % nf) + 1]
             variation == SelectVariation(tv, idx)
         IN  (IF oks[c]
              THEN << [filename |-> Filename(idx, variation, format),
                       textVariation |-> variation,
                       color |-> SelectColor(brief.colors, idx),
                       format |-> format] >>
              ELSE <<>>) \o SoloFlyers(e, brief, tv, oks, c + 1)

\* C21: two batches whose suspension points interleave arbitrarily each
\* return the GeneratedFlyer sequence they return when run alone: nothing
\* one batch writes is read by the other, and neither modifies the brief or
\* the variation list it was given.
C21_InterleavedBatchesAreIndependent ==
    entry = PairEntry =>
        \A p \in 1..2 :
            LET b == procs[p]
            IN  /\ b.config = b.given
                /\ b.pc \in {"render", "returned", "thrown"}
                     /\ b.response # NoResponse =>
                      b.textVariations =
                          generateVariations(b.given, b.quantity, "English",
                                             b.response)
                /\ b.flyers = SoloFlyers(b.entry, b.given, b.textVariations,
                                         b.oks, 1)
                /\ b.pc = "returned" =>
                      Len(b.oks) = b.quantity * Len(FormatsOf(b.entry))

C21_Witness ==
    /\ entry = PairEntry
    /\ procs[1].pc = "render"
    /\ procs[1].i = 1
    /\ Len(procs[1].flyers) = 1
    /\ procs[2].pc = "returned"
    /\ procs[2].entry = "generateForAllFormats"
    /\ Len(procs[2].flyers) = 5
    /\ procs[1].textVariations # procs[2].textVariations
====
